---- MODULE Spec2Model ----
(***************************************************************************)
(* Safeguard Mechanism baseline and credit engine of the emissions model   *)
(* (projections.py, config.py, calc_calendar.py).                          *)
(*                                                                         *)
(* Numbers.  The program computes in binary floating point.  The model     *)
(* computes the same expressions over exact rationals <<n, d>> (d > 0, in   *)
(* lowest terms), so a decimal literal such as 0.049 is the rational        *)
(* 49/1000.  Rounding error of the floating-point unit is not modelled.    *)
(*                                                                         *)
(* Dates.  All dates of the monthly table are first-of-month dates; a date  *)
(* is the month index year * 12 + (month - 1).                             *)
(***************************************************************************)
EXTENDS Integers, Sequences, FiniteSets, TLC

VARIABLES
    pc,          \* position of the caller: which call has been made
    erc_args,    \* arguments of the calculate_erc_for_fy call
    erc_out,     \* value returned by calculate_erc_for_fy
    monthly,     \* the monthly summary table handed to calculate_safeguard_metrics
    sg_args,     \* the other arguments of calculate_safeguard_metrics
    result,      \* the table calculate_safeguard_metrics returned
    bl_args,     \* arguments of the Section 11 baseline calls
    bl_out,      \* values returned by the Section 11 baseline calls
    nga_df,      \* NGAFactorsByYear.df: the factor table, in file order
    fs_args,     \* arguments of a Factor Store lookup
    fs_out,      \* outcome of a Factor Store lookup
    agg_df,      \* the ledger table handed to the emissions calculation
    em_map,      \* what build_year_factor_map returned: <<year_factor_map>>
    em_raised,   \* the error build_year_factor_map raised
    em_log,      \* the warnings and errors apply_emissions_to_df logged
    cal_args,    \* a table of dates and a fiscal year
    cal_out,     \* what the calendar functions returned for them
    bp_args,     \* the arguments of the build_projection calls, as first handed over
    bp_df,       \* the caller's consolidated table (df of build_projection)
    bp_out,      \* what the first build_projection call built and returned
    bp_out2      \* what the second call on the same table built and returned

erc_vars == <<erc_args, erc_out>>
sg_vars == <<monthly, sg_args, result>>
bl_vars == <<bl_args, bl_out>>
fs_vars == <<nga_df, fs_args, fs_out>>
em_vars == <<agg_df, em_map, em_raised, em_log>>
cal_vars == <<cal_args, cal_out>>
bp_vars == <<bp_args, bp_df, bp_out, bp_out2>>

vars == <<pc, erc_vars, sg_vars, bl_vars, fs_vars, em_vars, cal_vars, bp_vars>>

(***************************************************************************)
(* Bounds of the model                                                     *)
(***************************************************************************)
\* fiscal years handed to calculate_erc_for_fy: MinErcFY .. MaxErcFY
MinErcFY == 2021
MaxErcFY == 2052
\* last fiscal year of the monthly table
MaxFY == 2032
\* rows of the monthly table per fiscal year
NumMonths == 2
\* years asked of the Factor Store: MinQueryYear .. MaxQueryYear
MinQueryYear == 2022
MaxQueryYear == 2027
\* rows of the ledger table
MaxLedgerRows == 2
\* calendar years of the dates given to the calendar functions
MinCalYear == 2024
MaxCalYear == 2025
\* rows of the table given to filter_by_fy
MaxCalRows == 2

\* rows of the consolidated table handed to build_projection
MaxBpRows == 4

(***************************************************************************)
(* Exact rational arithmetic standing for the program's float arithmetic   *)
(***************************************************************************)
Abs(x) == IF x < 0 THEN -x ELSE x

RECURSIVE Gcd(_, _)
Gcd(a, b) == IF b = 0 THEN a ELSE Gcd(b, a % b)

\* n/d in lowest terms, d > 0
Rat(n, d) ==
    LET g == Gcd(Abs(n), d)
    IN  <<n \div g, d \div g>>

RInt(n) == <<n, 1>>

RAdd(x, y) ==
    LET g == Gcd(x[2], y[2])
    IN  Rat(x[1] * (y[2] \div g) + y[1] * (x[2] \div g), (x[2] \div g) * y[2])

RNeg(x) == <<-x[1], x[2]>>

RSub(x, y) == RAdd(x, RNeg(y))

RMul(x, y) ==
    LET g1 == Gcd(Abs(x[1]), y[2])
        g2 == Gcd(Abs(y[1]), x[2])
    IN  <<(x[1] \div g1) * (y[1] \div g2), (x[2] \div g2) * (y[2] \div g1)>>

\* x / y for y > 0
RDiv(x, y) == RMul(x, <<y[2], y[1]>>)

RLt(x, y) == RSub(x, y)[1] < 0

RLe(x, y) == RSub(x, y)[1] <= 0

RMax(x, y) == IF RLt(x, y) THEN y ELSE x

RECURSIVE RSum(_)
RSum(s) == IF s = <<>> THEN RInt(0) ELSE RAdd(s[1], RSum(Tail(s)))

(***************************************************************************)
(* config.py                                                               *)
(***************************************************************************)
None == <<>>

\* the variables of a function that the caller at hand does not call
NoERC == erc_args = None /\ erc_out = None
NoSG == monthly = <<>> /\ sg_args = None /\ result = <<>>
NoBL == bl_args = None /\ bl_out = None
NoFS == nga_df = <<>> /\ fs_args = None /\ fs_out = None
NoEM == agg_df = <<>> /\ em_map = None /\ em_raised = None /\ em_log = {}
NoCAL == cal_args = None /\ cal_out = None
NoBP == bp_args = None /\ bp_df = <<>> /\ bp_out = None /\ bp_out2 = None

DECLINE_RATE_PHASE1 == Rat(49, 1000)
DECLINE_RATE_PHASE2 == Rat(3285, 100000)
DECLINE_PHASE1_START == 2024
DECLINE_PHASE1_END == 2030
DECLINE_PHASE2_END == 2050

NGER_FY_START_MONTH == 7

SAFEGUARD_THRESHOLD == 100000
SAFEGUARD_MINIMUM_BASELINE == 100000

FSEI_ELEC == Rat(9081, 10000)
FSEI_ROM == Rat(177, 10000)
DEFAULT_INDUSTRY_EI_ROM == Rat(859, 100000)
DEFAULT_INDUSTRY_EI_ELEC == Rat(539, 1000)

S58B_EARLIEST_FY == 2029
S58B_LOOKBACK == 5
S58B_MIN_COVERED == 3

\* the scheme's first fiscal year, the literal 2024 of range(2024, fy)
SchemeFirstFY == 2024

TRANSITION_SCHEDULE ==
    [fy \in 2024 .. 2030 |->
        CASE fy = 2024 -> Rat(10, 100)
          [] fy = 2025 -> Rat(20, 100)
          [] fy = 2026 -> Rat(30, 100)
          [] fy = 2027 -> Rat(40, 100)
          [] fy = 2028 -> Rat(60, 100)
          [] fy = 2029 -> Rat(80, 100)
          [] fy = 2030 -> Rat(100, 100)]

\* the schedule without the step-up to 20% a year from FY2028
get_transition_proportion_no_step_up(fy) ==
    IF fy < DECLINE_PHASE1_START THEN RInt(0)
    ELSE IF fy \in DOMAIN TRANSITION_SCHEDULE THEN Rat(fy - 2023, 10)
    ELSE RInt(1)

get_transition_proportion(fy) ==
    IF fy < DECLINE_PHASE1_START THEN RInt(0)
    ELSE IF fy \in DOMAIN TRANSITION_SCHEDULE THEN TRANSITION_SCHEDULE[fy]
    ELSE RInt(1)

(***************************************************************************)
(* calc_calendar.py                                                        *)
(***************************************************************************)
\* the first-of-month date of month m of year y
Ym(y, m) == y * 12 + (m - 1)
YearOf(date) == date \div 12
MonthOf(date) == (date % 12) + 1

date_to_fy(date) ==
    IF MonthOf(date) >= NGER_FY_START_MONTH THEN YearOf(date) + 1 ELSE YearOf(date)

\* (start, end): 1 July of fy-1 and the month of 30 June of fy
fy_to_date_range(fy) == <<Ym(fy - 1, NGER_FY_START_MONTH), Ym(fy, 6)>>

\* datetime(year, month, day), a date with its day of the month
datetime(year, month, day) == <<year, month, day>>

\* a <= b for two datetimes
datetime_le(a, b) ==
    \/ a[1] < b[1]
    \/ a[1] = b[1] /\ a[2] < b[2]
    \/ a[1] = b[1] /\ a[2] = b[2] /\ a[3] <= b[3]

\* date_to_fy for a date with its day: only year and month are read
date_to_fy_of_datetime(date) ==
    IF date[2] >= NGER_FY_START_MONTH THEN date[1] + 1 ELSE date[1]

\* (start_date, end_date) of fy with their days
fy_to_datetime_range(fy) ==
    <<datetime(fy - 1, NGER_FY_START_MONTH, 1), datetime(fy, 6, 30)>>

\* the filter whose interval is open at end_date
filter_by_fy_open_end(df, fy) ==
    SelectSeq(df, LAMBDA row :
        /\ datetime_le(fy_to_datetime_range(fy)[1], row.Date)
        /\ datetime_le(row.Date, fy_to_datetime_range(fy)[2])
        /\ row.Date # fy_to_datetime_range(fy)[2])

\* df[(df['Date'] >= start_date) & (df['Date'] <= end_date)]
filter_by_fy(df, fy) ==
    SelectSeq(df, LAMBDA row :
        /\ datetime_le(fy_to_datetime_range(fy)[1], row.Date)
        /\ datetime_le(row.Date, fy_to_datetime_range(fy)[2]))

SAFEGUARD_START_DATE == Ym(2023, 7)
CREDIT_START_DATE == Ym(2023, 7)

(***************************************************************************)
(* projections.py: calculate_erc_for_fy                                    *)
(***************************************************************************)
\* the phase-1 branch with n counted from FY2024 itself (n = 0 for FY2024)
erc_phase1_from_start(fy) ==
    LET n == fy - DECLINE_PHASE1_START
    IN  RMax(RSub(RInt(1), RMul(RInt(n), DECLINE_RATE_PHASE1)), RInt(0))

erc_phase1(fy) ==
    LET n == fy - (DECLINE_PHASE1_START - 1)
    IN  RMax(RSub(RInt(1), RMul(RInt(n), DECLINE_RATE_PHASE1)), RInt(0))

\* the later branches without the max(..., 0.0) around the result
erc_after_phase1_no_floor(fy, decline_rate_phase2) ==
    LET phase1_years == DECLINE_PHASE1_END - (DECLINE_PHASE1_START - 1)
        erc_end_phase1 == RSub(RInt(1), RMul(RInt(phase1_years), DECLINE_RATE_PHASE1))
        rate_p2 == IF decline_rate_phase2 # None THEN decline_rate_phase2
                   ELSE DECLINE_RATE_PHASE2
        phase2_years == fy - DECLINE_PHASE1_END
        phase2_total == DECLINE_PHASE2_END - DECLINE_PHASE1_END
    IN  IF fy <= DECLINE_PHASE2_END
        THEN RSub(erc_end_phase1, RMul(RInt(phase2_years), rate_p2))
        ELSE RSub(erc_end_phase1, RMul(RInt(phase2_total), rate_p2))

erc_after_phase1(fy, decline_rate_phase2) ==
    LET phase1_years == DECLINE_PHASE1_END - (DECLINE_PHASE1_START - 1)
        erc_end_phase1 == RSub(RInt(1), RMul(RInt(phase1_years), DECLINE_RATE_PHASE1))
        rate_p2 == IF decline_rate_phase2 # None THEN decline_rate_phase2
                   ELSE DECLINE_RATE_PHASE2
        phase2_years == fy - DECLINE_PHASE1_END
        phase2_total == DECLINE_PHASE2_END - DECLINE_PHASE1_END
    IN  IF fy <= DECLINE_PHASE2_END
        THEN RMax(RSub(erc_end_phase1, RMul(RInt(phase2_years), rate_p2)), RInt(0))
        ELSE RMax(RSub(erc_end_phase1, RMul(RInt(phase2_total), rate_p2)), RInt(0))

calculate_erc_for_fy(fy, decline_rate_phase2) ==
    IF fy < DECLINE_PHASE1_START THEN RInt(1)
    ELSE IF fy <= DECLINE_PHASE1_END THEN erc_phase1(fy)
    ELSE erc_after_phase1(fy, decline_rate_phase2)

(***************************************************************************)
(* Specification SpecERC: one call of calculate_erc_for_fy                 *)
(***************************************************************************)
\* phase-2 rates a caller passes: none, zero, the default, 2% and 5%
ErcRates == {None, RInt(0), DECLINE_RATE_PHASE2, Rat(2, 100), Rat(5, 100)}

InitERC ==
    /\ pc = "erc_call"
    /\ erc_args \in [fy : MinErcFY .. MaxErcFY, decline_rate_phase2 : ErcRates]
    /\ erc_out = None
    /\ NoSG
    /\ NoBL
    /\ NoFS
    /\ NoEM
    /\ NoCAL
    /\ NoBP

CallERC ==
    /\ pc = "erc_call"
    /\ erc_out' = calculate_erc_for_fy(erc_args.fy, erc_args.decline_rate_phase2)
    /\ pc' = "erc_done"
    /\ UNCHANGED <<erc_args, sg_vars, bl_vars, fs_vars, em_vars, cal_vars, bp_vars>>

NextERC == CallERC

SpecERC == InitERC /\ [][NextERC]_vars

(***************************************************************************)
(* projections.py: Section 11 baseline                                     *)
(***************************************************************************)
\* (hybrid_ei_rom, hybrid_ei_elec)
calculate_hybrid_ei(fy, fsei_rom, fsei_elec) ==
    LET h == get_transition_proportion(fy)
        hybrid_rom == RAdd(RMul(h, DEFAULT_INDUSTRY_EI_ROM),
                           RMul(RSub(RInt(1), h), fsei_rom))
        hybrid_elec == RAdd(RMul(h, DEFAULT_INDUSTRY_EI_ELEC),
                            RMul(RSub(RInt(1), h), fsei_elec))
    IN  <<hybrid_rom, hybrid_elec>>

\* the floor applied before the two values are told apart
calculate_annual_baseline_floor_first(fy, rom_t, site_mwh, fsei_rom, fsei_elec, decline_rate_phase2) ==
    LET erc == calculate_erc_for_fy(fy, decline_rate_phase2)
        hybrid == calculate_hybrid_ei(fy, fsei_rom, fsei_elec)
        unfloored == RMul(erc, RAdd(RMul(hybrid[1], rom_t), RMul(hybrid[2], site_mwh)))
        floored == RMax(unfloored, RInt(SAFEGUARD_MINIMUM_BASELINE))
    IN  <<floored, floored>>

\* (floored, unfloored)
calculate_annual_baseline(fy, rom_t, site_mwh, fsei_rom, fsei_elec, decline_rate_phase2) ==
    LET erc == calculate_erc_for_fy(fy, decline_rate_phase2)
        hybrid == calculate_hybrid_ei(fy, fsei_rom, fsei_elec)
        unfloored == RMul(erc, RAdd(RMul(hybrid[1], rom_t), RMul(hybrid[2], site_mwh)))
        floored == RMax(unfloored, RInt(SAFEGUARD_MINIMUM_BASELINE))
    IN  <<floored, unfloored>>

(***************************************************************************)
(* Specification SpecBL: a caller takes the transition proportion, the     *)
(* hybrid intensities and the annual baseline of one fiscal year           *)
(***************************************************************************)
\* annual ROM tonnes and annual site MWh of the year
BlRomTonnes == {0, 1000000, 10000000}
BlSiteMWh == {0, 10000, 100000}
\* facility-specific intensities: the configured ones, and one on the other
\* side of the default intensity
BlFseiRom == {FSEI_ROM, Rat(5, 1000)}
BlFseiElec == {FSEI_ELEC, Rat(3, 10)}
BlRates == {None, Rat(5, 100)}

InitBL ==
    /\ pc = "bl_call"
    /\ bl_args \in [fy : MinErcFY .. MaxErcFY, rom_t : BlRomTonnes, site_mwh : BlSiteMWh,
                    fsei_rom : BlFseiRom, fsei_elec : BlFseiElec,
                    decline_rate_phase2 : BlRates]
    /\ bl_out = [h |-> None, hybrid |-> None, baseline |-> None]
    /\ NoERC
    /\ NoSG
    /\ NoFS
    /\ NoEM
    /\ NoCAL
    /\ NoBP

CallTransitionProportion ==
    /\ pc = "bl_call"
    /\ bl_out' = [bl_out EXCEPT !.h = get_transition_proportion(bl_args.fy)]
    /\ pc' = "bl_h"
    /\ UNCHANGED <<bl_args, erc_vars, sg_vars, fs_vars, em_vars, cal_vars, bp_vars>>

CallHybridEI ==
    /\ pc = "bl_h"
    /\ bl_out' = [bl_out EXCEPT !.hybrid =
                      calculate_hybrid_ei(bl_args.fy, bl_args.fsei_rom, bl_args.fsei_elec)]
    /\ pc' = "bl_hybrid"
    /\ UNCHANGED <<bl_args, erc_vars, sg_vars, fs_vars, em_vars, cal_vars, bp_vars>>

CallAnnualBaseline ==
    /\ pc = "bl_hybrid"
    /\ bl_out' = [bl_out EXCEPT !.baseline =
                      calculate_annual_baseline(bl_args.fy, RInt(bl_args.rom_t),
                                                RInt(bl_args.site_mwh), bl_args.fsei_rom,
                                                bl_args.fsei_elec, bl_args.decline_rate_phase2)]
    /\ pc' = "bl_done"
    /\ UNCHANGED <<bl_args, erc_vars, sg_vars, fs_vars, em_vars, cal_vars, bp_vars>>

NextBL == CallTransitionProportion \/ CallHybridEI \/ CallAnnualBaseline

SpecBL == InitBL /\ [][NextBL]_vars

(***************************************************************************)
(* projections.py: calculate_safeguard_metrics                             *)
(*                                                                         *)
(* A table is a sequence of rows (records), in the order of the data       *)
(* frame.  The pieces of the function are operators over the filtered      *)
(* table t; calculate_safeguard_metrics puts them together.                *)
(***************************************************************************)
\* the column of n rows whose row i holds f[i], each computed once
RECURSIVE Column(_, _)
Column(f, n) == IF n = 0 THEN <<>> ELSE Append(Column(f, n - 1), f[n])

Min(S) == CHOOSE x \in S : \A y \in S : x <= y
Max(S) == CHOOSE x \in S : \A y \in S : x >= y

\* the dict a loop "for k in sorted(S): d[k] = f[k]" fills, from key k on
RECURSIVE DictFrom(_, _, _, _)
DictFrom(f, S, k, last) ==
    IF k > last THEN <<>>
    ELSE IF k \in S THEN (k :> f[k]) @@ DictFrom(f, S, k + 1, last)
    ELSE DictFrom(f, S, k + 1, last)

Dict(f, S) == IF S = {} THEN <<>> ELSE DictFrom(f, S, Min(S), Max(S))

\* indices of the rows of t that belong to fiscal year fy (fy_mask)
fy_rows(t, fy) == {i \in 1 .. Len(t) : date_to_fy(t[i].Date) = fy}

\* result['_fy'].unique()
fys_of(t) == {date_to_fy(t[i].Date) : i \in 1 .. Len(t)}

RECURSIVE int_sum(_, _)
int_sum(f, S) ==
    IF S = {} THEN 0
    ELSE LET i == CHOOSE j \in S : TRUE IN f[i] + int_sum(f, S \ {i})

RECURSIVE rat_sum(_, _)
rat_sum(f, S) ==
    IF S = {} THEN RInt(0)
    ELSE LET i == CHOOSE j \in S : TRUE IN RAdd(f[i], rat_sum(f, S \ {i}))

\* groupby('_fy')[col].sum() for the integer-valued input columns
fy_total(t, fy, col) == int_sum([i \in 1 .. Len(t) |-> t[i][col]], fy_rows(t, fy))

\* month_rom_contrib + month_elec_contrib of row i
month_total(t, i, fsei_rom, fsei_elec) ==
    LET hybrid == calculate_hybrid_ei(date_to_fy(t[i].Date), fsei_rom, fsei_elec)
    IN  RAdd(RMul(RInt(t[i].ROM_t), hybrid[1]),
             RMul(RDiv(RInt(t[i].Site_Electricity_kWh), RInt(1000)), hybrid[2]))

\* the distribution that leaves a fiscal year without production at 0
distribute_nothing_without_weight(month_weight, total_weight, n_months, annual_baseline) ==
    IF RLt(RInt(0), total_weight)
    THEN RMul(RDiv(month_weight, total_weight), annual_baseline)
    ELSE RInt(0)

\* the share of an annual baseline that a row of weight month_weight receives,
\* in a fiscal year of n_months rows whose weights sum to total_weight
distribute(month_weight, total_weight, n_months, annual_baseline) ==
    IF RLt(RInt(0), total_weight)
    THEN RMul(RDiv(month_weight, total_weight), annual_baseline)
    ELSE RDiv(annual_baseline, RInt(n_months))

\* the raw credit amount taken from the floored baseline share
smc_raw_floored(row, credit_start_date) ==
    IF row.Date >= credit_start_date
    THEN RSub(row.Baseline, RInt(row.Scope1_tCO2e))
    ELSE RInt(0)

\* raw SMC per s56(4): unfloored baseline share less Scope 1, from credit start
smc_raw(row, credit_start_date) ==
    IF row.Date >= credit_start_date
    THEN RSub(row.Baseline_Unfloored, RInt(row.Scope1_tCO2e))
    ELSE RInt(0)

\* the count over the lookback years and the year itself and the year after
covered_count_to_next_year(fy, covered_fys) ==
    Cardinality({y \in (fy - S58B_LOOKBACK) .. (fy + 1) : y \in covered_fys})

\* the count over one more year than the lookback
covered_count_longer_lookback(fy, covered_fys) ==
    Cardinality({y \in (fy - S58B_LOOKBACK - 1) .. (fy - 1) : y \in covered_fys})

\* covered_count of the s58B lookback
covered_count(fy, covered_fys) ==
    Cardinality({y \in (fy - S58B_LOOKBACK) .. (fy - 1) : y \in covered_fys})

any_prior_coverage(fy, covered_fys) ==
    \E y \in SchemeFirstFY .. (fy - 1) : y \in covered_fys

\* the Exited test made before the threshold test: a year stays Exited
fy_phase_exit_first(fy, s1, covered_fys, credit_start_date) ==
    IF fy_to_date_range(fy)[1] < credit_start_date THEN "Pre-Safeguard"
    ELSE IF /\ any_prior_coverage(fy, covered_fys)
            /\ fy >= S58B_EARLIEST_FY
            /\ covered_count(fy, covered_fys) < S58B_MIN_COVERED THEN "Exited"
    ELSE IF s1 >= SAFEGUARD_THRESHOLD THEN "Safeguard"
    ELSE IF /\ fy >= S58B_EARLIEST_FY
            /\ covered_count(fy, covered_fys) >= S58B_MIN_COVERED THEN "Opt-In"
    ELSE "Gap"

\* opt-in needs more than S58B_MIN_COVERED covered years
fy_phase_min_covered_strict(fy, s1, covered_fys, credit_start_date) ==
    IF fy_to_date_range(fy)[1] < credit_start_date THEN "Pre-Safeguard"
    ELSE IF s1 >= SAFEGUARD_THRESHOLD THEN "Safeguard"
    ELSE IF /\ fy >= S58B_EARLIEST_FY
            /\ covered_count(fy, covered_fys) > S58B_MIN_COVERED THEN "Opt-In"
    ELSE IF /\ any_prior_coverage(fy, covered_fys)
            /\ fy >= S58B_EARLIEST_FY
            /\ covered_count(fy, covered_fys) < S58B_MIN_COVERED THEN "Exited"
    ELSE "Gap"

\* Exited without the date gate fy >= S58B_EARLIEST_FY
fy_phase_exit_no_date_gate(fy, s1, covered_fys, credit_start_date) ==
    IF fy_to_date_range(fy)[1] < credit_start_date THEN "Pre-Safeguard"
    ELSE IF s1 >= SAFEGUARD_THRESHOLD THEN "Safeguard"
    ELSE IF /\ fy >= S58B_EARLIEST_FY
            /\ covered_count(fy, covered_fys) >= S58B_MIN_COVERED THEN "Opt-In"
    ELSE IF /\ any_prior_coverage(fy, covered_fys)
            /\ covered_count(fy, covered_fys) < S58B_MIN_COVERED THEN "Exited"
    ELSE "Gap"

\* prior coverage looked for in the lookback window only
fy_phase_prior_in_lookback(fy, s1, covered_fys, credit_start_date) ==
    IF fy_to_date_range(fy)[1] < credit_start_date THEN "Pre-Safeguard"
    ELSE IF s1 >= SAFEGUARD_THRESHOLD THEN "Safeguard"
    ELSE IF /\ fy >= S58B_EARLIEST_FY
            /\ covered_count(fy, covered_fys) >= S58B_MIN_COVERED THEN "Opt-In"
    ELSE IF /\ covered_count(fy, covered_fys) > 0
            /\ fy >= S58B_EARLIEST_FY
            /\ covered_count(fy, covered_fys) < S58B_MIN_COVERED THEN "Exited"
    ELSE "Gap"

\* the threshold test made before the credit-start test
fy_phase_threshold_first(fy, s1, covered_fys, credit_start_date) ==
    IF s1 >= SAFEGUARD_THRESHOLD THEN "Safeguard"
    ELSE IF fy_to_date_range(fy)[1] < credit_start_date THEN "Pre-Safeguard"
    ELSE IF /\ fy >= S58B_EARLIEST_FY
            /\ covered_count(fy, covered_fys) >= S58B_MIN_COVERED THEN "Opt-In"
    ELSE IF /\ any_prior_coverage(fy, covered_fys)
            /\ fy >= S58B_EARLIEST_FY
            /\ covered_count(fy, covered_fys) < S58B_MIN_COVERED THEN "Exited"
    ELSE "Gap"

\* the phase of fiscal year fy whose annual Scope 1 is s1 (one pass of the loop
\* that fills fy_phase)
fy_phase_of(fy, s1, covered_fys, credit_start_date) ==
    IF fy_to_date_range(fy)[1] < credit_start_date THEN "Pre-Safeguard"
    ELSE IF s1 >= SAFEGUARD_THRESHOLD THEN "Safeguard"
    ELSE IF /\ fy >= S58B_EARLIEST_FY
            /\ covered_count(fy, covered_fys) >= S58B_MIN_COVERED THEN "Opt-In"
    ELSE IF /\ any_prior_coverage(fy, covered_fys)
            /\ fy >= S58B_EARLIEST_FY
            /\ covered_count(fy, covered_fys) < S58B_MIN_COVERED THEN "Exited"
    ELSE "Gap"

\* the Exited rule left out
phase_rule_exited_kept(smc_phase, smc_monthly) ==
    IF smc_phase = "Gap" THEN RInt(0)
    ELSE IF smc_phase = "Opt-In" /\ RLt(smc_monthly, RInt(0)) THEN RInt(0)
    ELSE smc_monthly

\* the Opt-In floor left out
phase_rule_optin_unfloored(smc_phase, smc_monthly) ==
    IF smc_phase = "Gap" THEN RInt(0)
    ELSE IF smc_phase = "Exited" THEN RInt(0)
    ELSE smc_monthly

\* phase-specific SMC rules applied to one row's raw SMC_Monthly
phase_rule(smc_phase, smc_monthly) ==
    IF smc_phase = "Gap" THEN RInt(0)
    ELSE IF smc_phase = "Opt-In" /\ RLt(smc_monthly, RInt(0)) THEN RInt(0)
    ELSE IF smc_phase = "Exited" THEN RInt(0)
    ELSE smc_monthly

\* rows i .. Len(t) of a running sum that starts again at every change of phase
RECURSIVE cumsum_reset_from(_, _, _)
cumsum_reset_from(t, i, acc) ==
    IF i > Len(t) THEN acc
    ELSE cumsum_reset_from(t, i + 1,
            Append(acc, IF i = 1 \/ t[i].SMC_Phase # t[i - 1].SMC_Phase
                        THEN t[i].SMC_Monthly
                        ELSE RAdd(acc[i - 1], t[i].SMC_Monthly)))

cumsum_reset_at_phase(t) == cumsum_reset_from(t, 1, <<>>)

\* rows i .. Len(t) of the running sum, acc holding rows 1 .. i-1
RECURSIVE cumsum_from(_, _, _)
cumsum_from(t, i, acc) ==
    IF i > Len(t) THEN acc
    ELSE cumsum_from(t, i + 1,
            Append(acc, IF i = 1 THEN t[i].SMC_Monthly
                        ELSE RAdd(acc[i - 1], t[i].SMC_Monthly)))

\* result['SMC_Monthly'].cumsum(): the column of running sums
cumsum(t) == cumsum_from(t, 1, <<>>)

(***************************************************************************)
(* projections.py: find_exit_date                                          *)
(***************************************************************************)
\* the loop over sorted(annual_scope1.index), from fiscal year fy on;
\* the loop without the reset at a year at or above the threshold
RECURSIVE exit_loop_no_reentry(_, _, _, _)
exit_loop_no_reentry(annual_scope1, fy, last, exit_fy) ==
    IF fy > last THEN exit_fy
    ELSE IF fy \notin DOMAIN annual_scope1
    THEN exit_loop_no_reentry(annual_scope1, fy + 1, last, exit_fy)
    ELSE IF fy < date_to_fy(SAFEGUARD_START_DATE)
    THEN exit_loop_no_reentry(annual_scope1, fy + 1, last, exit_fy)
    ELSE IF annual_scope1[fy] < SAFEGUARD_THRESHOLD
    THEN exit_loop_no_reentry(annual_scope1, fy + 1, last,
                              IF exit_fy = None THEN <<fy>> ELSE exit_fy)
    ELSE exit_loop_no_reentry(annual_scope1, fy + 1, last, exit_fy)

\* exit_fy is None or <<fy>>
RECURSIVE exit_loop(_, _, _, _)
exit_loop(annual_scope1, fy, last, exit_fy) ==
    IF fy > last THEN exit_fy
    ELSE IF fy \notin DOMAIN annual_scope1
    THEN exit_loop(annual_scope1, fy + 1, last, exit_fy)
    ELSE IF fy < date_to_fy(SAFEGUARD_START_DATE)
    THEN exit_loop(annual_scope1, fy + 1, last, exit_fy)
    ELSE IF annual_scope1[fy] < SAFEGUARD_THRESHOLD
    THEN exit_loop(annual_scope1, fy + 1, last, IF exit_fy = None THEN <<fy>> ELSE exit_fy)
    ELSE exit_loop(annual_scope1, fy + 1, last, None)

\* the exit date (None or <<date>>)
find_exit_date(t) ==
    LET annual_scope1 == Dict([fy \in fys_of(t) |-> fy_total(t, fy, "Scope1_tCO2e")], fys_of(t))
        exit_fy == IF t = <<>> THEN None
                   ELSE exit_loop(annual_scope1, Min(fys_of(t)), Max(fys_of(t)), None)
    IN  IF exit_fy # None THEN <<fy_to_date_range(exit_fy[1])[1]>> ELSE None

(***************************************************************************)
(* projections.py: calculate_safeguard_metrics, the whole function         *)
(***************************************************************************)
on_or_after_safeguard_start(row) == row.Date >= SAFEGUARD_START_DATE

\* what the function holds per fiscal year: the (floored, unfloored) annual
\* baseline, the total weight and the number of rows, the annual Scope 1
fy_record(t, weights, fy, fsei_rom, fsei_elec, decline_rate_phase2) ==
    [baseline |->
        calculate_annual_baseline(
            fy,
            RInt(fy_total(t, fy, "ROM_t")),
            RDiv(RInt(fy_total(t, fy, "Site_Electricity_kWh")), RInt(1000)),
            fsei_rom, fsei_elec, decline_rate_phase2),
     total_weight |-> rat_sum(weights, fy_rows(t, fy)),
     n_months |-> Cardinality(fy_rows(t, fy)),
     scope1 |-> fy_total(t, fy, "Scope1_tCO2e")]

\* the row with its shares of the floored and of the unfloored annual baseline
with_baseline(row, month_weight, fyr) ==
    row @@ [Baseline |->
                distribute(month_weight, fyr.total_weight, fyr.n_months, fyr.baseline[1]),
            Baseline_Unfloored |->
                distribute(month_weight, fyr.total_weight, fyr.n_months, fyr.baseline[2])]

\* the row with In_Safeguard, SMC_Phase, SMC_Monthly (raw, then the phase
\* rules) and Exit_FY
with_smc(row, in_safeguard, smc_phase, credit_start_date, exit_fy) ==
    row @@ [In_Safeguard |-> in_safeguard,
            SMC_Phase |-> smc_phase,
            SMC_Monthly |-> phase_rule(smc_phase, smc_raw(row, credit_start_date)),
            Exit_FY |-> exit_fy]

\* the table with the column SMC_Cumulative
with_cumulative(t, column) ==
    Column([i \in 1 .. Len(t) |-> t[i] @@ [SMC_Cumulative |-> column[i]]], Len(t))

\* date_to_fy(exit_date) if exit_date else None
exit_fy_of(exit_date) ==
    IF exit_date # None THEN <<date_to_fy(exit_date[1])>> ELSE None

calculate_safeguard_metrics(monthly_in, fsei_rom, fsei_elec, credit_start_date, decline_rate_phase2) ==
    LET \* filter to Safeguard Mechanism start onwards
        t == SelectSeq(monthly_in, on_or_after_safeguard_start)
        fys == fys_of(t)
        \* monthly weights, annual totals and baselines per fiscal year
        weights == Column([i \in 1 .. Len(t) |-> month_total(t, i, fsei_rom, fsei_elec)], Len(t))
        fyr == Dict([fy \in fys |->
                        fy_record(t, weights, fy, fsei_rom, fsei_elec, decline_rate_phase2)],
                    fys)
        \* baseline distributed to months
        t1 == Column([i \in 1 .. Len(t) |->
                         with_baseline(t[i], weights[i], fyr[date_to_fy(t[i].Date)])],
                     Len(t))
        \* covered years and the phase of each fiscal year
        covered_fys == {fy \in fys : fyr[fy].scope1 >= SAFEGUARD_THRESHOLD}
        fy_phase == Dict([fy \in fys |->
                             fy_phase_of(fy, fyr[fy].scope1, covered_fys, credit_start_date)],
                         fys)
        exit_fy == exit_fy_of(find_exit_date(t))
        t2 == Column([i \in 1 .. Len(t) |->
                         with_smc(t1[i], date_to_fy(t[i].Date) \in covered_fys,
                                  fy_phase[date_to_fy(t[i].Date)], credit_start_date, exit_fy)],
                     Len(t))
    IN  with_cumulative(t2, cumsum(t2))

(***************************************************************************)
(* Specification SpecSG: a monthly summary table is built, one fiscal year *)
(* at a time and in date order, and calculate_safeguard_metrics is called  *)
(* on it.                                                                  *)
(***************************************************************************)
\* The rows of one fiscal year come in three kinds.
\*   "covered": annual Scope 1 exactly at the threshold, the mine producing
\*   "below":   annual Scope 1 below the threshold, the mine producing
\*   "idle":    annual Scope 1 below the threshold, no production at all
Profiles == {"covered", "below", "idle"}

\* Scope 1 of row k (1 .. NumMonths) of a fiscal year: the first and the last
\* row carry the year's emissions
Scope1Of(profile, k) ==
    CASE profile = "covered" -> IF k = 1 THEN 70000 ELSE IF k = NumMonths THEN 30000 ELSE 0
      [] profile = "below" -> IF k = 1 THEN 60000 ELSE IF k = NumMonths THEN 10000 ELSE 0
      [] profile = "idle" -> IF k = 1 THEN 5000 ELSE 0

\* a "covered" year mines half of its ore and generates half of its site
\* electricity in the first row and the other half in the last row; a
\* "below" year does all of both in the first row
RomOf(profile, k) ==
    CASE profile = "covered" -> IF k = 1 \/ k = NumMonths THEN 5000000 ELSE 0
      [] profile = "below" -> IF k = 1 THEN 10000000 ELSE 0
      [] profile = "idle" -> 0

KwhOf(profile, k) ==
    CASE profile = "covered" -> IF k = 1 \/ k = NumMonths THEN 50000000 ELSE 0
      [] profile = "below" -> IF k = 1 THEN 100000000 ELSE 0
      [] profile = "idle" -> 0

\* the rows of fiscal year fy, evenly spaced from 1 July
FYRows(fy, profile) ==
    [k \in 1 .. NumMonths |->
        [Date |-> fy_to_date_range(fy)[1] + (k - 1) * (12 \div NumMonths),
         Scope1_tCO2e |-> Scope1Of(profile, k),
         ROM_t |-> RomOf(profile, k),
         Site_Electricity_kWh |-> KwhOf(profile, k)]]

\* credit-scheme start dates a caller passes: the default and one inside
\* FY2024
CreditStarts == {CREDIT_START_DATE, Ym(2024, 1)}

\* the table starts with a year before the scheme, which the function drops
InitSG ==
    /\ pc = "sg_build"
    /\ monthly = FYRows(2023, "covered")
    /\ sg_args = None
    /\ result = <<>>
    /\ NoERC
    /\ NoBL
    /\ NoFS
    /\ NoEM
    /\ NoCAL
    /\ NoBP

LastFY == date_to_fy(monthly[Len(monthly)].Date)

\* the last fiscal year of the table had no production: the mine has closed
Closed == monthly[Len(monthly) - NumMonths + 1].ROM_t = 0

\* the next fiscal year's rows are appended; a mine that has closed stays idle
AppendFY ==
    /\ pc = "sg_build"
    /\ LastFY < MaxFY
    /\ \E profile \in Profiles :
          /\ Closed => profile = "idle"
          /\ monthly' = monthly \o FYRows(LastFY + 1, profile)
    /\ UNCHANGED <<pc, erc_vars, sg_args, result, bl_vars, fs_vars, em_vars, cal_vars, bp_vars>>

CallSafeguardMetrics ==
    /\ pc = "sg_build"
    /\ \E credit_start_date \in CreditStarts :
          /\ sg_args' = [fsei_rom |-> FSEI_ROM, fsei_elec |-> FSEI_ELEC,
                         credit_start_date |-> credit_start_date,
                         decline_rate_phase2 |-> None]
          /\ result' = calculate_safeguard_metrics(monthly, FSEI_ROM, FSEI_ELEC,
                                                   credit_start_date, None)
    /\ pc' = "sg_done"
    /\ UNCHANGED <<monthly, erc_vars, bl_vars, fs_vars, em_vars, cal_vars, bp_vars>>

NextSG == AppendFY \/ CallSafeguardMetrics

SpecSG == InitSG /\ [][NextSG]_vars

(***************************************************************************)
(* loader_nga.py: NGAFactorsByYear, the Factor Store                       *)
(*                                                                         *)
(* A fuel name is a sequence of pieces of text; the name is their          *)
(* concatenation.  str.startswith is the prefix order of the sequences and *)
(* len() counts the characters of the pieces.                              *)
(***************************************************************************)
DieselOil == <<"Diesel oil">>
DieselOilCars == <<"Diesel oil", "-Cars and light commercial vehicles">>
DieselOilHeavy == <<"Diesel oil", "-Heavy duty vehicles">>
LPG == <<"Liquefied petroleum gas (LPG)">>
PetroleumBased == <<"Petroleum based">>
PetroleumOils == <<"Petroleum based", " oils">>
PetroleumGreases == <<"Petroleum based", " greases">>
GaseousOtherThan == <<"Gaseous fossil fuels other than">>
GaseousOtherThanFull == <<"Gaseous fossil fuels other than", " those mentioned in items 31 to 33">>
GridElectricity == <<"Grid electricity">>
Kerosene == <<"Kerosene">>

\* number of characters of each piece of text
PieceLen ==
    [piece \in {"Diesel oil", "-Cars and light commercial vehicles", "-Heavy duty vehicles",
                "Liquefied petroleum gas (LPG)", "Petroleum based", " oils", " greases",
                "Gaseous fossil fuels other than", " those mentioned in items 31 to 33",
                "Grid electricity", "Kerosene", " (Euro iv or higher)"} |->
        CASE piece = "Diesel oil" -> 10
          [] piece = "-Cars and light commercial vehicles" -> 35
          [] piece = "-Heavy duty vehicles" -> 20
          [] piece = "Liquefied petroleum gas (LPG)" -> 29
          [] piece = "Petroleum based" -> 15
          [] piece = " oils" -> 5
          [] piece = " greases" -> 8
          [] piece = "Gaseous fossil fuels other than" -> 31
          [] piece = " those mentioned in items 31 to 33" -> 35
          [] piece = "Grid electricity" -> 16
          [] piece = "Kerosene" -> 8
          [] piece = " (Euro iv or higher)" -> 20]

\* len(name)
RECURSIVE len(_)
len(name) == IF name = <<>> THEN 0 ELSE PieceLen[Head(name)] + len(Tail(name))

\* name.startswith(prefix)
startswith(name, prefix) ==
    Len(prefix) <= Len(name) /\ SubSeq(name, 1, Len(prefix)) = prefix

\* the items of a list, in order, without the repeated ones: Series.unique()
RECURSIVE unique(_)
unique(list) ==
    IF list = <<>> THEN <<>>
    ELSE LET rest == unique(SubSeq(list, 1, Len(list) - 1))
             last == list[Len(list)]
         IN  IF \E i \in 1 .. Len(rest) : rest[i] = last THEN rest ELSE Append(rest, last)

\* list with item put in after the items that are not longer: one step of
\* the stable sorted(..., key=len)
RECURSIVE insert_by_len(_, _)
insert_by_len(list, item) ==
    IF list = <<>> THEN <<item>>
    ELSE IF len(list[Len(list)]) <= len(item) THEN Append(list, item)
    ELSE Append(insert_by_len(SubSeq(list, 1, Len(list) - 1), item), list[Len(list)])

\* sorted(list, key=len)
RECURSIVE sorted_by_len(_)
sorted_by_len(list) ==
    IF list = <<>> THEN <<>>
    ELSE insert_by_len(sorted_by_len(SubSeq(list, 1, Len(list) - 1)), list[Len(list)])

\* the column of the rows of df that satisfy nothing but the year
names_of_year(df, year) ==
    LET ydf == SelectSeq(df, LAMBDA row : row.NGA_Year = year)
    IN  [i \in 1 .. Len(ydf) |-> ydf[i].Fuel_Name]

\* self.available_years, as the set of the years of the sorted list
available_years(df) == {df[i].NGA_Year : i \in 1 .. Len(df)}

\* self._fuel_names_by_year.get(year, [])
fuel_names_by_year(df, year) ==
    IF year \in available_years(df) THEN sorted_by_len(unique(names_of_year(df, year)))
    ELSE <<>>

\* the startswith loop over the names in table order, not shortest first
RECURSIVE first_startswith(_, _)
first_startswith(names, prefix) ==
    IF names = <<>> THEN None
    ELSE IF startswith(Head(names), prefix) THEN <<Head(names)>>
    ELSE first_startswith(Tail(names), prefix)

\* name resolution without the sort by length
resolve_in_table_order(df, year, prefix) ==
    LET names == IF year \in available_years(df) THEN unique(names_of_year(df, year))
                 ELSE <<>>
    IN  IF \E i \in 1 .. Len(names) : names[i] = prefix THEN <<prefix>>
        ELSE first_startswith(names, prefix)

\* the resolved name as <<name>>, or None
_resolve_fuel_name(df, year, prefix) ==
    LET names == fuel_names_by_year(df, year)
    IN  IF \E i \in 1 .. Len(names) : names[i] = prefix THEN <<prefix>>
        ELSE first_startswith(names, prefix)

\* year resolution where the upper year wins a tie
resolve_year_upper_tie(df, year) ==
    LET years == available_years(df)
    IN  IF year \in years THEN <<year>>
        ELSE IF years = {} THEN None
        ELSE <<CHOOSE y \in years :
                 \A z \in years :
                    \/ Abs(y - year) < Abs(z - year)
                    \/ (Abs(y - year) = Abs(z - year) /\ y >= z)>>

\* the resolved year as <<year>>, or None
_resolve_year(df, year) ==
    LET years == available_years(df)
    IN  IF year \in years THEN <<year>>
        ELSE IF years = {} THEN None
        ELSE IF year < Min(years) THEN <<Min(years)>>
        ELSE IF year > Max(years) THEN <<Max(years)>>
        ELSE \* min(sorted years, key=|y - year|): the first of the nearest
             <<CHOOSE y \in years :
                 \A z \in years :
                    \/ Abs(y - year) < Abs(z - year)
                    \/ (Abs(y - year) = Abs(z - year) /\ y <= z)>>

\* the returned dict as <<dict>>, or None; the function has no raise statement
match_fuel_factor(df, year, nga_fuel_prefix, scope, state) ==
    LET y == _resolve_year(df, year)
        full_name == IF y = None THEN None ELSE _resolve_fuel_name(df, y[1], nga_fuel_prefix)
        matches == IF full_name = None THEN <<>>
                   ELSE SelectSeq(df, LAMBDA row :
                            /\ row.NGA_Year = y[1]
                            /\ row.Fuel_Name = full_name[1]
                            /\ row.Scope = scope
                            /\ IF state # "" THEN row.State = state ELSE row.State = "")
    IN  IF matches = <<>> THEN None
        ELSE <<[EF_kgCO2e_per_unit |-> matches[1].EF_kgCO2e_per_unit,
                EF_Unit |-> matches[1].EF_Unit,
                Energy_Content |-> matches[1].Energy_Content,
                Fuel_Name |-> full_name[1]]>>

\* the unit after the last '/' of an EF_Unit given as the pieces between the
\* '/' characters
expected_uom(ef_unit) == IF Len(ef_unit) >= 2 THEN ef_unit[Len(ef_unit)] ELSE ""

\* the factor as <<value>>, or None
get_electricity_factor(df, year, state, scope) ==
    LET r == match_fuel_factor(df, year, GridElectricity, scope, state)
    IN  IF r = None THEN None ELSE <<r[1].EF_kgCO2e_per_unit>>

(***************************************************************************)
(* The factor tables of nga_factors.csv that the model loads               *)
(***************************************************************************)
\* a record of a fuel (State blank)
FuelRecord(year, name, scope, ef, energy) ==
    [NGA_Year |-> year, Fuel_Name |-> name, Scope |-> scope, State |-> "",
     EF_kgCO2e_per_unit |-> ef, EF_Unit |-> <<"kg CO2-e", "kL">>, Energy_Content |-> energy]

\* a record of grid electricity of a state (energy content blank)
ElectricityRecord(year, state, scope, ef) ==
    [NGA_Year |-> year, Fuel_Name |-> GridElectricity, Scope |-> scope, State |-> state,
     EF_kgCO2e_per_unit |-> ef, EF_Unit |-> <<"kg CO2-e", "kWh">>, Energy_Content |-> None]

\* the fuels of a publication year, the longer diesel names first; the
\* factors differ from fuel to fuel and from year to year
FuelsOfYear(year, gap) ==
    LET k == year - 2020
        s1(name, base, energy) ==
            IF gap = "no_scope1" /\ name = LPG THEN <<>>
            ELSE <<FuelRecord(year, name, 1, RInt(base + k),
                              IF gap = "no_energy" /\ name = DieselOil THEN None ELSE energy)>>
        s3(name, base, energy) ==
            IF gap = "no_scope3" /\ name = DieselOil THEN <<>>
            ELSE <<FuelRecord(year, name, 3, RInt(base + k), energy)>>
        both(name, base, energy) == s1(name, base, energy) \o s3(name, base \div 4, energy)
    IN  both(DieselOilCars, 2720, Rat(386, 10))
        \o both(DieselOilHeavy, 2710, Rat(386, 10))
        \o (IF gap = "no_plain_diesel" THEN <<>> ELSE both(DieselOil, 2700, Rat(386, 10)))
        \o both(LPG, 1550, Rat(257, 10))
        \o both(PetroleumOils, 530, Rat(388, 10))
        \o both(PetroleumGreases, 130, Rat(388, 10))
        \o both(GaseousOtherThanFull, 2, Rat(393, 10000))

\* grid electricity of a publication year, in kg CO2-e per kWh
ElectricityOfYear(year, gap) ==
    LET k == year - 2020
    IN  <<ElectricityRecord(year, "NSW", 2, Rat(66 - k, 100)),
          ElectricityRecord(year, "NSW", 3, Rat(4, 100))>>
        \o (IF gap = "no_state" THEN <<>>
            ELSE <<ElectricityRecord(year, "QLD", 2, Rat(71 - k, 100))>>
                 \o (IF gap = "no_scope3" THEN <<>>
                     ELSE <<ElectricityRecord(year, "QLD", 3, Rat(9, 100))>>))

\* what a publication year may lack
Gaps == {"none", "no_scope1", "no_scope3", "no_energy", "no_state", "no_plain_diesel"}

\* the publication years of the file
YearSets == {{}, {2025}, {2023, 2025}, {2023, 2026}}

\* the file with the years of the set in ascending order from year on, the
\* year gap_year having the gap
RECURSIVE TableFrom(_, _, _, _)
TableFrom(years, year, gap_year, gap) ==
    IF years = {} \/ year > Max(years) THEN <<>>
    ELSE IF year \notin years THEN TableFrom(years, year + 1, gap_year, gap)
    ELSE FuelsOfYear(year, IF year = gap_year THEN gap ELSE "none")
         \o ElectricityOfYear(year, IF year = gap_year THEN gap ELSE "none")
         \o TableFrom(years, year + 1, gap_year, gap)

FactorTables ==
    {<<>>} \cup {TableFrom(years, Min(years), gap_year, gap) :
                    <<years, gap_year, gap>> \in
                        {t \in (YearSets \ {{}}) \X (2023 .. 2026) \X Gaps : t[2] \in t[1]}}

(***************************************************************************)
(* Specification SpecFS: a factor table is loaded and the Factor Store is  *)
(* asked for a year and for a factor                                       *)
(***************************************************************************)
QueryNames == {DieselOil, DieselOilCars, GaseousOtherThan, PetroleumBased, GridElectricity, Kerosene}
QueryStates == {"", "QLD", "NSW"}

InitFS ==
    /\ pc = "fs_loaded"
    /\ nga_df \in FactorTables
    /\ fs_args = None
    /\ fs_out = None
    /\ NoERC
    /\ NoSG
    /\ NoBL
    /\ NoEM
    /\ NoCAL
    /\ NoBP

ResolveYear ==
    /\ pc = "fs_loaded"
    /\ \E year \in MinQueryYear .. MaxQueryYear :
          /\ fs_args' = [year |-> year]
          /\ fs_out' = [raised |-> FALSE, value |-> _resolve_year(nga_df, year)]
    /\ pc' = "fs_year"
    /\ UNCHANGED <<nga_df, erc_vars, sg_vars, bl_vars, em_vars, cal_vars, bp_vars>>

MatchFuelFactor ==
    /\ pc = "fs_loaded"
    /\ \E year \in MinQueryYear .. MaxQueryYear, prefix \in QueryNames,
          scope \in 1 .. 3, state \in QueryStates :
          /\ fs_args' = [year |-> year, nga_fuel_prefix |-> prefix,
                         scope |-> scope, state |-> state]
          /\ fs_out' = [raised |-> FALSE,
                        value |-> match_fuel_factor(nga_df, year, prefix, scope, state)]
    /\ pc' = "fs_factor"
    /\ UNCHANGED <<nga_df, erc_vars, sg_vars, bl_vars, em_vars, cal_vars, bp_vars>>

NextFS == ResolveYear \/ MatchFuelFactor

SpecFS == InitFS /\ [][NextFS]_vars

(***************************************************************************)
(* calc_emissions.py: build_year_factor_map                                *)
(***************************************************************************)
FUEL_PREFIXES ==
    <<DieselOilCars, DieselOil, LPG, PetroleumOils, PetroleumGreases, GaseousOtherThan>>

\* the keys of a year's factors, in the order the dict receives them
FactorKeys == Append(FUEL_PREFIXES, GridElectricity)

\* the single element of a set of one element
only(S) == CHOOSE x \in S : TRUE

\* year_factors[prefix] from the Scope-1 record s1 and the Scope-3 lookup s3
fuel_factors(s1, s3) ==
    [s1 |-> s1.EF_kgCO2e_per_unit,
     s2 |-> RInt(0),
     s3 |-> IF s3 # None THEN s3[1].EF_kgCO2e_per_unit ELSE RInt(0),
     energy |-> IF s1.Energy_Content # None /\ s1.Energy_Content # RInt(0)
                THEN s1.Energy_Content ELSE RInt(0),
     expected_uom |-> expected_uom(s1.EF_Unit)]

\* year_factors['Grid electricity'] from the Scope-2 factor s2 and the
\* Scope-3 lookup s3
electricity_factors(s2, s3) ==
    [s1 |-> RInt(0),
     s2 |-> s2,
     s3 |-> IF s3 # None /\ s3 # <<RInt(0)>> THEN s3[1] ELSE RInt(0),
     energy |-> Rat(36, 10000),
     expected_uom |-> "kWh"]

\* the lookups of the Factor Store for a year: s1 and s3 of each prefix in
\* the order of FUEL_PREFIXES, s2 and s3 of grid electricity of the state
year_lookups(df, year, state) ==
    [fuel_s1 |-> [i \in 1 .. Len(FUEL_PREFIXES) |->
                     match_fuel_factor(df, year, FUEL_PREFIXES[i], 1, "")],
     fuel_s3 |-> [i \in 1 .. Len(FUEL_PREFIXES) |->
                     match_fuel_factor(df, year, FUEL_PREFIXES[i], 3, "")],
     electricity_s2 |-> get_electricity_factor(df, year, state, 2),
     electricity_s3 |-> get_electricity_factor(df, year, state, 3)]

\* the body of the loop over the years with the results found of the
\* lookups: the error raised for the year, or the year's factors
year_factors_from(year, state, found) ==
    LET missing == {i \in 1 .. Len(FUEL_PREFIXES) : found.fuel_s1[i] = None}
    IN  IF missing # {}
        THEN [raised |-> [scope |-> 1, category |-> FUEL_PREFIXES[Min(missing)],
                          state |-> "", year |-> year],
              year_factors |-> None]
        ELSE IF found.electricity_s2 = None
        THEN [raised |-> [scope |-> 2, category |-> GridElectricity,
                          state |-> state, year |-> year],
              year_factors |-> None]
        ELSE [raised |-> None,
              year_factors |->
                  [key \in {FactorKeys[i] : i \in 1 .. Len(FactorKeys)} |->
                      IF key = GridElectricity
                      THEN electricity_factors(found.electricity_s2[1], found.electricity_s3)
                      ELSE LET i == CHOOSE j \in 1 .. Len(FUEL_PREFIXES) : FUEL_PREFIXES[j] = key
                           IN  fuel_factors(found.fuel_s1[i][1], found.fuel_s3[i])]]

\* the body of the loop over the years
year_factors_of(df, year, state) ==
    only({year_factors_from(year, state, found) : found \in {year_lookups(df, year, state)}})

\* the loop that stops at the first year with a missing factor and returns
\* the map of the years before it
RECURSIVE build_loop_partial(_, _, _, _, _)
build_loop_partial(df, unique_years, state, k, factor_map) ==
    IF k > Len(unique_years) THEN [raised |-> None, factor_map |-> <<factor_map>>]
    ELSE only({IF r.raised # None THEN [raised |-> r.raised, factor_map |-> <<factor_map>>]
               ELSE build_loop_partial(df, unique_years, state, k + 1,
                                       factor_map @@ (unique_years[k] :> r.year_factors)) :
               r \in {year_factors_of(df, unique_years[k], state)}})

build_year_factor_map_partial(df, unique_years, state) ==
    build_loop_partial(df, unique_years, state, 1, <<>>)

\* the loop over unique_years from position k on, factor_map filled so far
RECURSIVE build_loop(_, _, _, _, _)
build_loop(df, unique_years, state, k, factor_map) ==
    IF k > Len(unique_years) THEN [raised |-> None, factor_map |-> <<factor_map>>]
    ELSE only({IF r.raised # None THEN [raised |-> r.raised, factor_map |-> None]
               ELSE build_loop(df, unique_years, state, k + 1,
                               factor_map @@ (unique_years[k] :> r.year_factors)) :
               r \in {year_factors_of(df, unique_years[k], state)}})

\* [raised, factor_map]: the ValueError raised, or <<the dict returned>>
build_year_factor_map(df, unique_years, state) ==
    build_loop(df, unique_years, state, 1, <<>>)

(***************************************************************************)
(* calc_emissions.py: apply_emissions_to_df                                *)
(***************************************************************************)
\* a missing NGAFuel value
NaN == <<"nan">>

\* has_fuel of a row
has_fuel(row) == row.NGAFuel # NaN /\ row.NGAFuel # <<>>

\* the keys of year_factors in dict order
keys_in_order(year_factors) == SelectSeq(FactorKeys, LAMBDA k : k \in DOMAIN year_factors)

\* factor_key for nga_fuel as <<key>>, or None
match_factor_key(nga_fuel, year_factors) ==
    LET keys == keys_in_order(year_factors)
        prefixes == {i \in 1 .. Len(keys) : startswith(nga_fuel, keys[i])}
        longest == Min({i \in prefixes : \A j \in prefixes : len(keys[i]) >= len(keys[j])})
        reverse == {i \in 1 .. Len(keys) : startswith(keys[i], nga_fuel)}
    IN  IF nga_fuel \in DOMAIN year_factors THEN <<nga_fuel>>
        ELSE IF prefixes # {} THEN <<keys[longest]>>
        ELSE IF reverse # {} THEN <<keys[Min(reverse)]>>
        ELSE None

\* the four columns at their initial 0.0
zero_columns ==
    [Scope1_tCO2e |-> RInt(0), Scope2_tCO2e |-> RInt(0),
     Scope3_tCO2e |-> RInt(0), Energy_GJ |-> RInt(0)]

\* the four columns of a row of quantity qty under the factors yf
factor_columns(qty, yf) ==
    [Scope1_tCO2e |-> IF yf.s1 # RInt(0) THEN RDiv(RMul(RInt(qty), yf.s1), RInt(1000))
                      ELSE RInt(0),
     Scope2_tCO2e |-> IF yf.s2 # RInt(0) THEN RDiv(RMul(RInt(qty), yf.s2), RInt(1000))
                      ELSE RInt(0),
     Scope3_tCO2e |-> IF yf.s3 # RInt(0) THEN RDiv(RMul(RInt(qty), yf.s3), RInt(1000))
                      ELSE RInt(0),
     Energy_GJ |-> IF yf.energy # RInt(0) THEN RMul(RInt(qty), yf.energy) ELSE RInt(0)]

\* the year of the first row that carries the NGAFuel of row i
sample_year_of(df, i) ==
    df[Min({j \in 1 .. Len(df) : has_fuel(df[j]) /\ df[j].NGAFuel = df[i].NGAFuel})].FY

\* the columns of row i taken from the factors of the sample year
row_columns_of_sample_year(df, i, year_factor_map) ==
    IF ~has_fuel(df[i]) THEN zero_columns
    ELSE IF sample_year_of(df, i) \notin DOMAIN year_factor_map THEN zero_columns
    ELSE LET year_factors == year_factor_map[sample_year_of(df, i)]
             factor_key == match_factor_key(df[i].NGAFuel, year_factors)
         IN  IF factor_key = None THEN zero_columns
             ELSE factor_columns(df[i].Quantity, year_factors[factor_key[1]])

\* the columns that the loops over fuel_values and over the years leave in
\* row i
row_columns(df, i, year_factor_map) ==
    IF ~has_fuel(df[i]) THEN zero_columns
    ELSE IF sample_year_of(df, i) \notin DOMAIN year_factor_map THEN zero_columns
    ELSE LET year_factors == year_factor_map[sample_year_of(df, i)]
             factor_key == match_factor_key(df[i].NGAFuel, year_factors)
         IN  IF factor_key = None THEN zero_columns
             ELSE IF df[i].FY \notin DOMAIN year_factor_map THEN zero_columns
             ELSE IF factor_key[1] \notin DOMAIN year_factor_map[df[i].FY] THEN zero_columns
             ELSE factor_columns(df[i].Quantity, year_factor_map[df[i].FY][factor_key[1]])

apply_emissions_to_df(df, year_factor_map) ==
    Column([i \in 1 .. Len(df) |-> row_columns(df, i, year_factor_map) @@ df[i]], Len(df))

\* a record of the logger
LogRecord(level, event, fuel, key, year, uom, expected) ==
    [level |-> level, event |-> event, fuel |-> fuel, key |-> key, year |-> year,
     uom |-> uom, expected_uom |-> expected]

\* what the passes of the loops that reach row i log: no factors for the
\* sample year, no factor key, a unit other than the expected one (the
\* pass goes on), no factors for the key in the row's year
row_log(df, i, year_factor_map) ==
    IF ~has_fuel(df[i]) THEN {}
    ELSE IF sample_year_of(df, i) \notin DOMAIN year_factor_map
    THEN {LogRecord("warning", "no_factors_for_year", df[i].NGAFuel, <<>>,
                    sample_year_of(df, i), "", "")}
    ELSE LET year_factors == year_factor_map[sample_year_of(df, i)]
             factor_key == match_factor_key(df[i].NGAFuel, year_factors)
         IN  IF factor_key = None
             THEN {LogRecord("warning", "no_factor_match", df[i].NGAFuel, <<>>, 0, "", "")}
             ELSE LET expected == year_factors[factor_key[1]].expected_uom
                  IN  (IF expected # "" /\ df[i].UOM # expected
                       THEN {LogRecord("error", "uom_mismatch", df[i].NGAFuel, <<>>, 0,
                                       df[i].UOM, expected)}
                       ELSE {})
                      \cup
                      (IF \/ df[i].FY \notin DOMAIN year_factor_map
                          \/ factor_key[1] \notin DOMAIN year_factor_map[df[i].FY]
                       THEN {LogRecord("warning", "no_factors_for_key", <<>>, factor_key[1],
                                       df[i].FY, "", "")}
                       ELSE {})

\* the records apply_emissions_to_df hands to the logger
apply_emissions_log(df, year_factor_map) ==
    UNION {row_log(df, i, year_factor_map) : i \in 1 .. Len(df)}

(***************************************************************************)
(* Specification SpecEM: a factor table is loaded, a ledger is read row by *)
(* row, the factor map of its years is built and the emissions are         *)
(* calculated (loader_data.py 173-177, projections.py 146-148)             *)
(***************************************************************************)
\* the factor files: none of the years, or 2023 and 2025 with a gap in one
EmFactorTables ==
    {<<>>} \cup {TableFrom({2023, 2025}, 2023, gap_year, gap) :
                    <<gap_year, gap>> \in {2023, 2025} \X Gaps}

\* a row of the ledger
LedgerRow(fuel, fy, quantity, uom) ==
    [NGAFuel |-> fuel, FY |-> fy, Quantity |-> quantity, UOM |-> uom]

\* the rows a ledger is made of: NGAFuel missing, empty, equal to a key in
\* two years, equal to a key with another unit than the factor's, extending
\* a key, truncated, without factors, grid electricity
LedgerRows ==
    {LedgerRow(NaN, 2024, 1000, "t"),
     LedgerRow(<<>>, 2025, 2500, "t"),
     LedgerRow(DieselOil, 2024, 1000, "kL"),
     LedgerRow(DieselOil, 2025, 2500, "kL"),
     LedgerRow(DieselOil, 2025, 4000, "L"),
     LedgerRow(DieselOilCars \o <<" (Euro iv or higher)">>, 2025, 2500, "kL"),
     LedgerRow(PetroleumBased, 2024, 1000, "kL"),
     LedgerRow(Kerosene, 2025, 2500, "kL"),
     LedgerRow(GridElectricity, 2024, 1000, "kWh")}

InitEM ==
    /\ pc = "em_load"
    /\ nga_df \in EmFactorTables
    /\ fs_args = None
    /\ fs_out = None
    /\ agg_df = <<>>
    /\ em_map = None
    /\ em_raised = None
    /\ em_log = {}
    /\ NoERC
    /\ NoSG
    /\ NoBL
    /\ NoCAL
    /\ NoBP

AppendRow ==
    /\ pc = "em_load"
    /\ Len(agg_df) < MaxLedgerRows
    /\ \E row \in LedgerRows : agg_df' = Append(agg_df, row)
    /\ UNCHANGED <<pc, em_map, em_raised, em_log, fs_vars, erc_vars, sg_vars, bl_vars, cal_vars, bp_vars>>

\* unique_years = agg_df['FY'].unique(), then build_year_factor_map
BuildYearFactorMap ==
    /\ pc = "em_load"
    /\ \E unique_years \in {unique([i \in 1 .. Len(agg_df) |-> agg_df[i].FY])} :
          \E built \in {build_year_factor_map(nga_df, unique_years, "QLD")} :
              /\ em_raised' = built.raised
              /\ em_map' = built.factor_map
              /\ pc' = IF built.raised # None THEN "em_failed" ELSE "em_built"
    /\ UNCHANGED <<agg_df, em_log, fs_vars, erc_vars, sg_vars, bl_vars, cal_vars, bp_vars>>

ApplyEmissions ==
    /\ pc = "em_built"
    /\ agg_df' = apply_emissions_to_df(agg_df, em_map[1])
    /\ em_log' = apply_emissions_log(agg_df, em_map[1])
    /\ pc' = "em_done"
    /\ UNCHANGED <<em_map, em_raised, fs_vars, erc_vars, sg_vars, bl_vars, cal_vars, bp_vars>>

NextEM == AppendRow \/ BuildYearFactorMap \/ ApplyEmissions

SpecEM == InitEM /\ [][NextEM]_vars

(***************************************************************************)
(* Specification SpecCAL: the calendar functions applied to a table of     *)
(* dates and a fiscal year                                                 *)
(***************************************************************************)
\* the dates of the tables: first and last days of the months around the
\* turn of the calendar year and of the fiscal year
CalDates ==
    {datetime(y, m, d) : y \in MinCalYear .. MaxCalYear, m \in {1, 6, 7, 12}, d \in {1, 30}}

\* the fiscal years asked for
CalFYs == MinCalYear .. MaxCalYear + 1

InitCAL ==
    /\ pc = "cal_load"
    /\ cal_args = [df |-> <<>>, fy |-> MinCalYear]
    /\ cal_out = None
    /\ NoERC
    /\ NoSG
    /\ NoBL
    /\ NoFS
    /\ NoEM
    /\ NoBP

\* a row of the table; Value tells equal dates apart
AppendDate ==
    /\ pc = "cal_load"
    /\ Len(cal_args.df) < MaxCalRows
    /\ \E date \in CalDates :
          cal_args' = [cal_args EXCEPT
                          !.df = Append(@, [Date |-> date, Value |-> Len(@) + 1])]
    /\ UNCHANGED <<pc, cal_out, erc_vars, sg_vars, bl_vars, fs_vars, em_vars, bp_vars>>

\* date_to_fy of every date, fy_to_date_range(fy) and filter_by_fy(df, fy)
CallCalendar ==
    /\ pc = "cal_load"
    /\ \E fy \in CalFYs :
          /\ cal_args' = [cal_args EXCEPT !.fy = fy]
          /\ cal_out' =
                [fy_of |-> Column([i \in 1 .. Len(cal_args.df) |->
                                      date_to_fy_of_datetime(cal_args.df[i].Date)],
                                  Len(cal_args.df)),
                 date_range |-> fy_to_datetime_range(fy),
                 fy_of_range |-> <<date_to_fy_of_datetime(fy_to_datetime_range(fy)[1]),
                                   date_to_fy_of_datetime(fy_to_datetime_range(fy)[2])>>,
                 filtered |-> filter_by_fy(cal_args.df, fy)]
    /\ pc' = "cal_done"
    /\ UNCHANGED <<erc_vars, sg_vars, bl_vars, fs_vars, em_vars, bp_vars>>

NextCAL == AppendDate \/ CallCalendar

SpecCAL == InitCAL /\ [][NextCAL]_vars

(***************************************************************************)
(* projections.py: build_projection, recalculate_emissions and             *)
(* aggregate_to_monthly                                                    *)
(***************************************************************************)
GRID_SITE_ELEC_DESCRIPTION == "Site electricity"
GRID_GRID_ELEC_DESCRIPTION == "Grid electricity"
DESC_ROM_COSTCENTRE == "ROM"

\* Description.str.contains('Ore', case=False) of the descriptions of the
\* ledger
contains_ore(description) == description \in {"Ore mined", "High grade ore"}

\* (Date, Description) of a row
merge_key(row) == <<row.Date, row.Description>>

\* the budget rows past the last actual month only
budget_fill_future_only(budget, actuals) ==
    SelectSeq(budget, LAMBDA r : \A i \in 1 .. Len(actuals) : r.Date > actuals[i].Date)

\* the budget rows whose (Date, Description) is not in actual_keys
budget_fill_of(budget, actuals) ==
    LET actual_keys == {merge_key(actuals[i]) : i \in 1 .. Len(actuals)}
    IN  SelectSeq(budget, LAMBDA r : merge_key(r) \notin actual_keys)

\* the row without a column
drop_column(row, name) == [c \in DOMAIN row \ {name} |-> row[c]]

\* [raised, result]: the ValueError of build_year_factor_map, or the copy of
\* data with its emissions calculated anew.  apply_emissions_to_df reads
\* the fiscal year from the column FY_temp, which in the model stands in the
\* place of FY during the call; dropping it leaves FY as data has it
recalculate_emissions(data, nga_by_year) ==
    only({only({IF built.raised # None THEN [raised |-> built.raised, result |-> <<>>]
                ELSE [raised |-> None,
                      result |-> LET applied == apply_emissions_to_df(fy_temp,
                                                                      built.factor_map[1])
                                 IN  Column([i \in 1 .. Len(applied) |->
                                                [FY |-> data[i].FY]
                                                    @@ drop_column(applied[i], "FY")],
                                            Len(applied))] :
                built \in {build_year_factor_map(
                               nga_by_year,
                               unique([i \in 1 .. Len(fy_temp) |-> fy_temp[i].FY]),
                               "QLD")}}) :
          fy_temp \in {Column([i \in 1 .. Len(data) |->
                                  [FY |-> date_to_fy(data[i].Date)] @@ data[i]],
                              Len(data))}})

\* the dates of a table in ascending order from date on
RECURSIVE dates_from(_, _)
dates_from(dates, date) ==
    IF dates = {} \/ date > Max(dates) THEN <<>>
    ELSE IF date \in dates THEN <<date>> \o dates_from(dates, date + 1)
    ELSE dates_from(dates, date + 1)

\* groupby('Date')[column].sum() at a date over the rows of the mask
group_sum(t, date, column, mask) ==
    rat_sum([i \in 1 .. Len(t) |-> t[i][column]],
            {i \in 1 .. Len(t) : t[i].Date = date /\ mask[i]})

\* a sum that is a whole number, as the integer the Safeguard calculation
\* of the model works on
whole(x) == x[1] \div x[2]

\* the record of a date: the sums of the scopes, and ROM tonnes, site and
\* grid electricity, 0 after fillna where the left merge found no group
month_record(t, date) ==
    LET every == [i \in 1 .. Len(t) |-> TRUE]
        rom_mask == [i \in 1 .. Len(t) |->
                        t[i].CostCentre = DESC_ROM_COSTCENTRE
                        /\ contains_ore(t[i].Description)]
        site_elec == [i \in 1 .. Len(t) |-> t[i].Description = GRID_SITE_ELEC_DESCRIPTION]
        grid_elec == [i \in 1 .. Len(t) |-> t[i].Description = GRID_GRID_ELEC_DESCRIPTION]
        quantity == Column([i \in 1 .. Len(t) |-> [Quantity |-> RInt(t[i].Quantity),
                                                   Date |-> t[i].Date]], Len(t))
    IN  [Date |-> date,
         Scope1_tCO2e |-> whole(group_sum(t, date, "Scope1_tCO2e", every)),
         Scope2_tCO2e |-> group_sum(t, date, "Scope2_tCO2e", every),
         Scope3_tCO2e |-> group_sum(t, date, "Scope3_tCO2e", every),
         ROM_t |-> whole(group_sum(quantity, date, "Quantity", rom_mask)),
         Site_Electricity_kWh |-> whole(group_sum(quantity, date, "Quantity", site_elec)),
         Grid_Electricity_kWh |-> whole(group_sum(quantity, date, "Quantity", grid_elec))]

\* one record per date of the emissions groups, in ascending order of date
aggregate_to_monthly(t) ==
    LET dates == dates_from({t[i].Date : i \in 1 .. Len(t)},
                            Min({t[i].Date : i \in 1 .. Len(t)}))
    IN  Column([k \in 1 .. Len(dates) |-> month_record(t, dates[k])], Len(dates))

\* what steps 1 to 6 build: [raised, combined, monthly_summary, returned];
\* the empty DataFrame is returned when there are no actuals or no budget
projection_steps(df, dataset, nga_by_year, fsei_rom, fsei_elec, credit_start_date) ==
    LET actuals == SelectSeq(df, LAMBDA r : r.DataSet = dataset)
        budget == SelectSeq(df, LAMBDA r : r.DataSet = "Budget")
    IN  IF Len(actuals) = 0 \/ Len(budget) = 0
        THEN [raised |-> None, combined |-> None, monthly_summary |-> None,
              returned |-> <<>>]
        ELSE only({IF budget_prime.raised # None
                   THEN [raised |-> budget_prime.raised, combined |-> None,
                         monthly_summary |-> None, returned |-> None]
                   ELSE only({[raised |-> None,
                               combined |-> <<actuals \o budget_prime.result>>,
                               monthly_summary |-> <<monthly_summary>>,
                               returned |-> calculate_safeguard_metrics(
                                                monthly_summary, fsei_rom, fsei_elec,
                                                credit_start_date, None)] :
                              monthly_summary \in
                                  {aggregate_to_monthly(actuals \o budget_prime.result)}}) :
                   budget_prime \in
                       {recalculate_emissions(budget_fill_of(budget, actuals),
                                              nga_by_year)}})

\* the steps done on df itself instead of on copies: df is left as the
\* combined table
build_projection_in_place(df, dataset, nga_by_year, fsei_rom, fsei_elec, credit_start_date) ==
    only({steps @@ [df |-> IF steps.combined = None THEN df ELSE steps.combined[1]] :
          steps \in {projection_steps(df, dataset, nga_by_year, fsei_rom, fsei_elec,
                                      credit_start_date)}})

\* the steps and the caller's df after the call: actuals, budget,
\* budget_fill and result are copies, so df is as it was
build_projection(df, dataset, nga_by_year, fsei_rom, fsei_elec, credit_start_date) ==
    projection_steps(df, dataset, nga_by_year, fsei_rom, fsei_elec, credit_start_date)
        @@ [df |-> df]

(***************************************************************************)
(* Specification SpecBP: build_projection called twice on a consolidated   *)
(* table of fiscal year 2025                                               *)
(***************************************************************************)
\* nga_factors.csv next to the modules
BpFactorTable == TableFrom({2023, 2025}, 2023, 0, "none")

\* a row of the consolidated CSV
CsvRow(dataset, date, description, costcentre, quantity, uom, fuel) ==
    [DataSet |-> dataset, Date |-> date, FY |-> date_to_fy(date),
     Description |-> description, CostCentre |-> costcentre, Quantity |-> quantity,
     UOM |-> uom, NGAFuel |-> fuel]

\* the rows a table is made of, in the loader's order (DataSet, Year, Month,
\* Description): actuals of July 2024; budget of July (one under the key of
\* an actual row, one under a key of its own), of August and of September
CsvRows ==
    <<CsvRow("Actual", Ym(2024, 7), "Diesel", "Mining", 20000, "kL", DieselOil),
      CsvRow("Actual", Ym(2024, 7), "Ore mined", "ROM", 5000000, "t", NaN),
      CsvRow("Actual", Ym(2024, 7), "Site electricity", "Power", 50000000, "kWh", NaN),
      CsvRow("Budget", Ym(2024, 7), "Diesel", "Mining", 30000, "kL", DieselOil),
      CsvRow("Budget", Ym(2024, 7), "Grid electricity", "Power", 10000000, "kWh",
             GridElectricity),
      CsvRow("Budget", Ym(2024, 8), "Diesel", "Mining", 10000, "kL", DieselOil),
      CsvRow("Budget", Ym(2024, 10), "Diesel", "Mining", 1000, "kL", DieselOil),
      CsvRow("Budget", Ym(2024, 10), "High grade ore", "ROM", 5000000, "t", NaN)>>

\* the emissions of the rows of the CSV, calculated from the Factor Store
load_all_data(rows, nga_by_year) ==
    only({apply_emissions_to_df(rows, built.factor_map[1]) :
          built \in {build_year_factor_map(
                         nga_by_year, unique([i \in 1 .. Len(rows) |-> rows[i].FY]), "QLD")}})

\* the position in CsvRows of the last row of the table
LastCsvRow ==
    IF bp_df = <<>> THEN 0
    ELSE CHOOSE k \in 1 .. Len(CsvRows) :
            drop_column(drop_column(drop_column(drop_column(
                bp_df[Len(bp_df)], "Scope1_tCO2e"), "Scope2_tCO2e"), "Scope3_tCO2e"),
                "Energy_GJ") = CsvRows[k]

InitBP ==
    /\ pc = "bp_load"
    /\ nga_df = BpFactorTable
    /\ fs_args = None
    /\ fs_out = None
    /\ bp_args = None
    /\ bp_df = <<>>
    /\ bp_out = None
    /\ bp_out2 = None
    /\ NoERC
    /\ NoSG
    /\ NoBL
    /\ NoEM
    /\ NoCAL

\* a further row of the CSV is loaded
LoadRow ==
    /\ pc = "bp_load"
    /\ Len(bp_df) < MaxBpRows
    /\ \E k \in LastCsvRow + 1 .. Len(CsvRows) :
          bp_df' = bp_df \o load_all_data(<<CsvRows[k]>>, nga_df)
    /\ UNCHANGED <<pc, bp_args, bp_out, bp_out2, nga_df, fs_args, fs_out,
                   erc_vars, sg_vars, bl_vars, em_vars, cal_vars>>

\* build_projection(df, credit_start_date=...): the first call, and the same
\* call again on the table as the first call left it
BuildProjection ==
    /\ pc \in {"bp_load", "bp_built"}
    /\ \E credit_start_date \in IF pc = "bp_load" THEN CreditStarts
                                 ELSE {bp_args.credit_start_date} :
          \E built \in {build_projection(bp_df, "Actual", nga_df, FSEI_ROM, FSEI_ELEC,
                                         credit_start_date)} :
              /\ bp_df' = built.df
              /\ IF pc = "bp_load"
                 THEN /\ bp_args' = [df |-> bp_df, credit_start_date |-> credit_start_date]
                      /\ bp_out' = drop_column(built, "df")
                      /\ bp_out2' = bp_out2
                      /\ pc' = "bp_built"
                 ELSE /\ bp_args' = bp_args
                      /\ bp_out' = bp_out
                      /\ bp_out2' = drop_column(built, "df")
                      /\ pc' = "bp_rebuilt"
    /\ UNCHANGED <<nga_df, fs_args, fs_out, erc_vars, sg_vars, bl_vars, em_vars, cal_vars>>

NextBP == LoadRow \/ BuildProjection

SpecBP == InitBP /\ [][NextBP]_vars

(***************************************************************************)
(* Properties of calculate_erc_for_fy (SpecERC)                            *)
(***************************************************************************)
\* a rational with at most five decimals, in units of 0.00001
E5(x) == x[1] * (100000 \div x[2])

ErcRateE5 ==
    IF erc_args.decline_rate_phase2 = None THEN 3285
    ELSE E5(erc_args.decline_rate_phase2)

NonNeg(k) == IF k < 0 THEN 0 ELSE k

\* the legislated piecewise-linear function, in units of 0.00001
LegislatedErcE5(fy) ==
    IF fy < 2024 THEN 100000
    ELSE IF fy <= 2030 THEN NonNeg(100000 - (fy - 2023) * 4900)
    ELSE IF fy <= 2050 THEN NonNeg(65700 - (fy - 2030) * ErcRateE5)
    ELSE NonNeg(65700 - 20 * ErcRateE5)

\* the legislated table of phase 1 and the first default value of phase 2
ErcTable ==
    (2024 :> 95100) @@ (2025 :> 90200) @@ (2026 :> 85300) @@ (2027 :> 80400)
    @@ (2028 :> 75500) @@ (2029 :> 70600) @@ (2030 :> 65700)

\* C10: calculate_erc_for_fy is the legislated piecewise-linear function: 1.0
\* before FY2024; max(1 - (fy-2023)*0.049, 0) for FY2024..FY2030, that is
\* 0.951, 0.902, ..., 0.657; max(0.657 - (fy-2030)*rate2, 0) for FY2031..FY2050
\* with rate2 = 0.03285 unless the caller passes one (0.62415 for FY2031);
\* and the FY2050 value for every later year.
C10_ErcPiecewiseLinear ==
    pc = "erc_done" =>
        /\ erc_out[2] > 0
        /\ 100000 % erc_out[2] = 0
        /\ E5(erc_out) = LegislatedErcE5(erc_args.fy)
        /\ erc_args.fy \in DOMAIN ErcTable => E5(erc_out) = ErcTable[erc_args.fy]
        /\ erc_args.fy = 2031 /\ erc_args.decline_rate_phase2 = None
              => E5(erc_out) = 62415

\* FY2031 at the default rate gives 0.62415, and a year after FY2050 at a
\* caller's rate is frozen at that rate's FY2050 value
C10_Witness ==
    /\ pc = "erc_done"
    /\ \/ /\ erc_args.fy = 2031
          /\ erc_args.decline_rate_phase2 = None
          /\ erc_out = Rat(62415, 100000)
       \/ /\ erc_args.fy = 2052
          /\ erc_args.decline_rate_phase2 = Rat(2, 100)
          /\ erc_out = Rat(25700, 100000)

(***************************************************************************)
(* Properties of calculate_safeguard_metrics (SpecSG), stated on the       *)
(* table it returned                                                       *)
(***************************************************************************)
Returned == pc = "sg_done"
Rows == 1 .. Len(result)
FyOfRow(i) == date_to_fy(result[i].Date)
OutFYs == {FyOfRow(i) : i \in Rows}
CreditStart == sg_args.credit_start_date

\* 1 July of fy - 1
FyStart(fy) == (fy - 1) * 12 + 6

\* the annual Scope-1 total of a fiscal year of the returned table
AnnualScope1(fy) == int_sum([i \in Rows |-> result[i].Scope1_tCO2e], {i \in Rows : FyOfRow(i) = fy})

\* fy is in the table and its annual Scope-1 total is at or above the threshold
AtOrAbove(fy) == fy \in OutFYs /\ AnnualScope1(fy) >= 100000

\* the number of the five fiscal years before fy that were at or above threshold
LookbackCovered(fy) == Cardinality({y \in (fy - 5) .. (fy - 1) : AtOrAbove(y)})

\* covered in some fiscal year before fy since the scheme began (FY2024)
CoveredBefore(fy) == \E y \in 2024 .. (fy - 1) : AtOrAbove(y)

PreSafeguardYear(fy) == FyStart(fy) < CreditStart

OptInEligible(fy) == fy >= 2029 /\ LookbackCovered(fy) >= 3

\* the baseline share less the month's Scope 1, from the unfloored baseline
UnflooredLessScope1(i) == RSub(result[i].Baseline_Unfloored, RInt(result[i].Scope1_tCO2e))

\* C1: a fiscal year that starts on or after the credit-scheme start and whose
\* annual Scope 1 is at or above the threshold is Safeguard, whatever the
\* phases of the years before it (re-entry after Gap, Opt-In or Exited).
C1_ReentryIsSafeguard ==
    Returned =>
        \A i \in Rows :
            (~PreSafeguardYear(FyOfRow(i)) /\ AnnualScope1(FyOfRow(i)) >= 100000)
                => result[i].SMC_Phase = "Safeguard"

\* a Safeguard year directly after an Exited year, and one directly after an
\* Opt-In year
C1_Witness ==
    /\ Returned
    /\ \E i, j \in Rows :
          /\ FyOfRow(i) = FyOfRow(j) + 1
          /\ result[j].SMC_Phase = "Exited"
          /\ result[i].SMC_Phase = "Safeguard"
    /\ \E i, j \in Rows :
          /\ FyOfRow(i) = FyOfRow(j) + 1
          /\ result[j].SMC_Phase = "Opt-In"
          /\ result[i].SMC_Phase = "Safeguard"

\* C2: a fiscal year that is not Pre-Safeguard and is below the threshold is
\* Opt-In if and only if it is FY2029 or later and at least 3 of the 5 fiscal
\* years before it were at or above the threshold.
C2_OptInIffEligible ==
    Returned =>
        \A i \in Rows :
            (~PreSafeguardYear(FyOfRow(i)) /\ AnnualScope1(FyOfRow(i)) < 100000)
                => (result[i].SMC_Phase = "Opt-In" <=> OptInEligible(FyOfRow(i)))

\* an Opt-In year with exactly 3 covered years in its lookback, and a
\* below-threshold year from FY2029 on with only 2, which is not Opt-In
C2_Witness ==
    /\ Returned
    /\ \E i \in Rows :
          /\ result[i].SMC_Phase = "Opt-In"
          /\ LookbackCovered(FyOfRow(i)) = 3
    /\ \E i \in Rows :
          /\ FyOfRow(i) >= 2029
          /\ AnnualScope1(FyOfRow(i)) < 100000
          /\ LookbackCovered(FyOfRow(i)) = 2
          /\ result[i].SMC_Phase # "Opt-In"

\* C3: a below-threshold fiscal year that is neither Pre-Safeguard nor eligible
\* for Opt-In is Exited when the facility was covered in some earlier fiscal
\* year since FY2024 and the year has reached the earliest-eligible year
\* (fy >= 2029); in every other case it is Gap.
C3_ExitedElseGap ==
    Returned =>
        \A i \in Rows :
            (/\ ~PreSafeguardYear(FyOfRow(i))
             /\ AnnualScope1(FyOfRow(i)) < 100000
             /\ ~OptInEligible(FyOfRow(i)))
                => result[i].SMC_Phase =
                     IF CoveredBefore(FyOfRow(i)) /\ FyOfRow(i) >= 2029
                     THEN "Exited" ELSE "Gap"

\* one table with an Exited year, a Gap year before FY2029 that follows a
\* covered year, and a Gap year from FY2029 on
C3_Witness ==
    /\ Returned
    /\ \E i \in Rows : result[i].SMC_Phase = "Exited" /\ FyOfRow(i) = 2029
    /\ \E i \in Rows :
          /\ result[i].SMC_Phase = "Gap"
          /\ FyOfRow(i) < 2029
          /\ CoveredBefore(FyOfRow(i))

\* C4 as stated: every Gap year is below the threshold and has never yet been
\* covered (no earlier fiscal year since FY2024 at or above the threshold).
C4_GapNeverCovered ==
    Returned =>
        \A i \in Rows :
            result[i].SMC_Phase = "Gap"
                => /\ AnnualScope1(FyOfRow(i)) < 100000
                   /\ ~CoveredBefore(FyOfRow(i))

\* C4 as amended: every Gap year is below the threshold, and it either comes
\* before the earliest-eligible year FY2029 or has never yet been covered.
C4_GapEarlyOrNeverCovered ==
    Returned =>
        \A i \in Rows :
            result[i].SMC_Phase = "Gap"
                => /\ AnnualScope1(FyOfRow(i)) < 100000
                   /\ ~PreSafeguardYear(FyOfRow(i))
                   /\ (FyOfRow(i) < 2029 \/ ~CoveredBefore(FyOfRow(i)))

\* a Gap year after the earliest-eligible year, in a table that was never at
\* or above the threshold before it
C4_Witness ==
    /\ Returned
    /\ \E i \in Rows :
          /\ result[i].SMC_Phase = "Gap"
          /\ FyOfRow(i) >= 2030
          /\ AnnualScope1(FyOfRow(i)) > 0
          /\ ~CoveredBefore(FyOfRow(i))

\* C5: a fiscal year is Pre-Safeguard exactly when 1 July of fy-1 is before
\* the credit-scheme start, also when it is at or above the threshold; every
\* row carries one of the five labels and the rows of one fiscal year carry
\* the same label.
C5_PreSafeguardAndLabels ==
    Returned =>
        /\ \A i \in Rows :
              /\ result[i].SMC_Phase = "Pre-Safeguard" <=> PreSafeguardYear(FyOfRow(i))
              /\ result[i].SMC_Phase \in
                    {"Pre-Safeguard", "Safeguard", "Gap", "Opt-In", "Exited"}
        /\ \A i, j \in Rows :
              FyOfRow(i) = FyOfRow(j) => result[i].SMC_Phase = result[j].SMC_Phase

\* an at-threshold year that starts before the credit-scheme start, next to a
\* Safeguard year
C5_Witness ==
    /\ Returned
    /\ \E i \in Rows :
          /\ result[i].SMC_Phase = "Pre-Safeguard"
          /\ AnnualScope1(FyOfRow(i)) >= 100000
    /\ \E i \in Rows : result[i].SMC_Phase = "Safeguard"

\* C6: in a Safeguard year each month's SMC_Monthly is its share of the
\* unfloored annual baseline less its Scope 1 (the months of such a year are
\* all on or after the credit-scheme start); every month before the
\* credit-scheme start has SMC_Monthly = 0.
C6_SafeguardCreditUnfloored ==
    Returned =>
        \A i \in Rows :
            /\ result[i].SMC_Phase = "Safeguard"
                  => /\ result[i].Date >= CreditStart
                     /\ result[i].SMC_Monthly = UnflooredLessScope1(i)
            /\ result[i].Date < CreditStart => result[i].SMC_Monthly = RInt(0)

\* a Safeguard month whose floored share differs from its unfloored share and
\* that owes a surrender, a Safeguard month that earns a credit, and a month
\* before the credit-scheme start
C6_Witness ==
    /\ Returned
    /\ \E i \in Rows :
          /\ result[i].SMC_Phase = "Safeguard"
          /\ result[i].Baseline # result[i].Baseline_Unfloored
          /\ result[i].SMC_Monthly[1] < 0
    /\ \E i \in Rows :
          /\ result[i].SMC_Phase = "Safeguard"
          /\ result[i].SMC_Monthly[1] > 0
    /\ \E i \in Rows :
          /\ result[i].Date < CreditStart
          /\ UnflooredLessScope1(i) # RInt(0)

\* C7: every month of a Gap or Exited year has SMC_Monthly = 0.
C7_GapExitedZero ==
    Returned =>
        \A i \in Rows :
            result[i].SMC_Phase \in {"Gap", "Exited"} => result[i].SMC_Monthly = RInt(0)

\* a Gap month and an Exited month whose baseline share differs from their
\* Scope 1, one above and one below
C7_Witness ==
    /\ Returned
    /\ \E i \in Rows :
          result[i].SMC_Phase = "Gap" /\ UnflooredLessScope1(i)[1] > 0
    /\ \E i \in Rows :
          result[i].SMC_Phase = "Exited" /\ UnflooredLessScope1(i)[1] < 0
    /\ \E i \in Rows :
          result[i].SMC_Phase = "Exited" /\ UnflooredLessScope1(i)[1] > 0

\* C8: every month of an Opt-In year has SMC_Monthly = max(0, unfloored
\* baseline share - Scope 1): credits only.
C8_OptInCreditsOnly ==
    Returned =>
        \A i \in Rows :
            result[i].SMC_Phase = "Opt-In"
                => /\ result[i].SMC_Monthly =
                        IF UnflooredLessScope1(i)[1] > 0 THEN UnflooredLessScope1(i)
                        ELSE RInt(0)
                   /\ result[i].SMC_Monthly[1] >= 0

\* an Opt-In month whose surrender amount is floored to 0 and an Opt-In month
\* that earns a credit
C8_Witness ==
    /\ Returned
    /\ \E i \in Rows :
          /\ result[i].SMC_Phase = "Opt-In"
          /\ UnflooredLessScope1(i)[1] < 0
          /\ result[i].SMC_Monthly = RInt(0)
    /\ \E i \in Rows :
          /\ result[i].SMC_Phase = "Opt-In"
          /\ result[i].SMC_Monthly[1] > 0

\* C9: the rows are in date order and SMC_Cumulative of each row is
\* SMC_Cumulative of the row before it (0 before the first) plus the row's
\* SMC_Monthly, across the whole table; it is not reset where the phase
\* changes, and it does not move across Gap and Exited months.
C9_CumulativeRunningSum ==
    Returned =>
        \A i \in Rows :
            /\ i > 1 => result[i - 1].Date < result[i].Date
            /\ result[i].SMC_Cumulative =
                  RAdd(IF i = 1 THEN RInt(0) ELSE result[i - 1].SMC_Cumulative,
                       result[i].SMC_Monthly)
            /\ (i > 1 /\ result[i].SMC_Phase \in {"Gap", "Exited"})
                  => result[i].SMC_Cumulative = result[i - 1].SMC_Cumulative

\* a balance earned in Safeguard years that is still there in an Exited year
C9_Witness ==
    /\ Returned
    /\ \E i, j \in Rows :
          /\ j < i
          /\ result[j].SMC_Phase = "Safeguard"
          /\ result[j].SMC_Monthly[1] > 0
          /\ result[i].SMC_Phase = "Exited"
          /\ result[i].SMC_Cumulative[1] > 0
          /\ result[i].SMC_Cumulative = result[j].SMC_Cumulative

(***************************************************************************)
(* Further properties of calculate_erc_for_fy (SpecERC)                    *)
(***************************************************************************)
\* the phase-2 rate of the call is the default or a non-negative number
ErcRateNonNegative ==
    erc_args.decline_rate_phase2 = None \/ erc_args.decline_rate_phase2[1] >= 0

\* what the function returns for the following fiscal year at the same rate
ErcOfNextFY == calculate_erc_for_fy(erc_args.fy + 1, erc_args.decline_rate_phase2)

\* C11: at the default phase-2 rate and at every non-negative caller rate the
\* returned ERC is between 0 and 1 for every fiscal year, and from FY2024 on
\* the ERC of the following fiscal year is not above it.
C11_ErcMonotoneAndBounded ==
    (pc = "erc_done" /\ ErcRateNonNegative) =>
        /\ RLe(RInt(0), erc_out)
        /\ RLe(erc_out, RInt(1))
        /\ erc_args.fy >= 2024 => RLe(ErcOfNextFY, erc_out)

\* the last fiscal year with a positive ERC at the rate 0.05: the following
\* year would be negative without the floor at 0
C11_Witness ==
    /\ pc = "erc_done"
    /\ erc_args.fy = 2043
    /\ erc_args.decline_rate_phase2 = Rat(5, 100)
    /\ erc_out = Rat(7, 1000)
    /\ ErcOfNextFY = RInt(0)

(***************************************************************************)
(* Properties of the Section 11 baseline functions (SpecBL)                *)
(***************************************************************************)
\* the legislated transition proportion, in percent
LegislatedPercent(fy) ==
    IF fy < 2024 THEN 0
    ELSE IF fy > 2030 THEN 100
    ELSE (2024 :> 10 @@ 2025 :> 20 @@ 2026 :> 30 @@ 2027 :> 40
          @@ 2028 :> 60 @@ 2029 :> 80 @@ 2030 :> 100)[fy]

\* x lies between a and b, whichever of the two is the larger
Between(x, a, b) == (RLe(a, x) /\ RLe(x, b)) \/ (RLe(b, x) /\ RLe(x, a))

\* p% of the default intensity and (100 - p)% of the facility-specific one
Blend(p, default_ei, fsei) ==
    RAdd(RMul(Rat(p, 100), default_ei), RMul(Rat(100 - p, 100), fsei))

\* C12: h(fy) is 0 before FY2024, 10%, 20%, 30%, 40%, 60%, 80%, 100% for
\* FY2024..FY2030 and 1 after FY2030, so it is in [0,1]; each hybrid
\* intensity is h*DefaultEI + (1-h)*FSEI and lies between the
\* facility-specific and the default intensity.
C12_TransitionAndHybrid ==
    /\ pc \in {"bl_h", "bl_hybrid", "bl_done"} =>
          /\ bl_out.h = Rat(LegislatedPercent(bl_args.fy), 100)
          /\ RLe(RInt(0), bl_out.h) /\ RLe(bl_out.h, RInt(1))
    /\ pc \in {"bl_hybrid", "bl_done"} =>
          /\ bl_out.hybrid[1] =
                Blend(LegislatedPercent(bl_args.fy), Rat(859, 100000), bl_args.fsei_rom)
          /\ bl_out.hybrid[2] =
                Blend(LegislatedPercent(bl_args.fy), Rat(539, 1000), bl_args.fsei_elec)
          /\ Between(bl_out.hybrid[1], bl_args.fsei_rom, Rat(859, 100000))
          /\ Between(bl_out.hybrid[2], bl_args.fsei_elec, Rat(539, 1000))

\* FY2028, the year of the step-up: h = 0.60 and both hybrid intensities
\* strictly between a facility-specific intensity below the default and the
\* default
C12_Witness ==
    /\ pc = "bl_hybrid"
    /\ bl_args.fy = 2028
    /\ bl_out.h = Rat(60, 100)
    /\ RLt(bl_args.fsei_rom, bl_out.hybrid[1])
    /\ RLt(bl_out.hybrid[1], Rat(859, 100000))
    /\ RLt(bl_args.fsei_elec, bl_out.hybrid[2])
    /\ RLt(bl_out.hybrid[2], Rat(539, 1000))

\* ERC * (HybridEI_ROM * ROM tonnes + HybridEI_elec * site MWh) of the call
Section11Unfloored ==
    RMul(calculate_erc_for_fy(bl_args.fy, bl_args.decline_rate_phase2),
         RAdd(RMul(bl_out.hybrid[1], RInt(bl_args.rom_t)),
              RMul(bl_out.hybrid[2], RInt(bl_args.site_mwh))))

\* C13: calculate_annual_baseline returns unfloored = ERC(fy) *
\* (HybridEI_ROM(fy) * annual ROM tonnes + HybridEI_elec(fy) * annual site
\* MWh) and floored = max(unfloored, 100000): floored is never below 100000
\* while unfloored may be (FY2024 with 1,000,000 t ROM and 10,000 MWh at the
\* configured intensities: unfloored about 24,300, floored exactly 100,000).
C13_AnnualBaseline ==
    pc = "bl_done" =>
        /\ bl_out.baseline[2] = Section11Unfloored
        /\ bl_out.baseline[1] =
              IF RLt(bl_out.baseline[2], RInt(100000)) THEN RInt(100000)
              ELSE bl_out.baseline[2]
        /\ RLe(RInt(100000), bl_out.baseline[1])
        /\ (/\ bl_args.fy = 2024
            /\ bl_args.rom_t = 1000000
            /\ bl_args.site_mwh = 10000
            /\ bl_args.fsei_rom = Rat(177, 10000)
            /\ bl_args.fsei_elec = Rat(9081, 10000))
              => /\ RLe(RInt(24250), bl_out.baseline[2])
                 /\ RLt(bl_out.baseline[2], RInt(24350))
                 /\ bl_out.baseline[1] = RInt(100000)

\* the example of the statement: unfloored below the floor, floored at it
C13_Witness ==
    /\ pc = "bl_done"
    /\ bl_args.fy = 2024
    /\ bl_args.rom_t = 1000000
    /\ bl_args.site_mwh = 10000
    /\ bl_args.fsei_rom = FSEI_ROM
    /\ bl_args.fsei_elec = FSEI_ELEC
    /\ RLt(bl_out.baseline[2], RInt(100000))
    /\ bl_out.baseline[1] = RInt(100000)

(***************************************************************************)
(* Properties of the monthly distribution (SpecSG)                         *)
(***************************************************************************)
RowsOfFY(fy) == {i \in Rows : FyOfRow(i) = fy}

\* (floored, unfloored) annual baseline of fy from the year's totals of the
\* returned table
AnnualBaselineOf(fy) ==
    calculate_annual_baseline(
        fy,
        RInt(int_sum([i \in Rows |-> result[i].ROM_t], RowsOfFY(fy))),
        RDiv(RInt(int_sum([i \in Rows |-> result[i].Site_Electricity_kWh], RowsOfFY(fy))),
             RInt(1000)),
        sg_args.fsei_rom, sg_args.fsei_elec, sg_args.decline_rate_phase2)

\* ROM_t * HybridEI_ROM + (site kWh / 1000) * HybridEI_elec of row i
RowWeight(i) ==
    LET hybrid == calculate_hybrid_ei(FyOfRow(i), sg_args.fsei_rom, sg_args.fsei_elec)
    IN  RAdd(RMul(RInt(result[i].ROM_t), hybrid[1]),
             RMul(Rat(result[i].Site_Electricity_kWh, 1000), hybrid[2]))

\* the share of an annual value that is due to a month of the given weight
\* in a year of n_months months whose weights sum to total
DueShare(weight, total, n_months, annual) ==
    IF total[1] > 0 THEN RMul(RDiv(weight, total), annual)
    ELSE RDiv(annual, RInt(n_months))

\* C14: in every fiscal year of the returned table the monthly Baseline
\* values sum to the year's floored annual baseline and the monthly
\* Baseline_Unfloored values to the unfloored one; each month receives the
\* annual value in proportion to its weight, and annual/n_months when the
\* year's total weight is zero.
C14_DistributionKeepsAnnualTotals ==
    Returned =>
        \A fy \in OutFYs :
            LET rows == RowsOfFY(fy)
                annual == AnnualBaselineOf(fy)
                weights == Column([i \in Rows |-> IF i \in rows THEN RowWeight(i) ELSE RInt(0)],
                                  Len(result))
                total == rat_sum(weights, rows)
            IN  /\ rat_sum([i \in Rows |-> result[i].Baseline], rows) = annual[1]
                /\ rat_sum([i \in Rows |-> result[i].Baseline_Unfloored], rows) = annual[2]
                /\ \A i \in rows :
                      /\ result[i].Baseline
                            = DueShare(weights[i], total, Cardinality(rows), annual[1])
                      /\ result[i].Baseline_Unfloored
                            = DueShare(weights[i], total, Cardinality(rows), annual[2])

\* a year without production whose months share the floor evenly, and a
\* producing year whose months receive different shares
C14_Witness ==
    /\ Returned
    /\ \E i \in Rows :
          /\ RowWeight(i) = RInt(0)
          /\ result[i].ROM_t = 0
          /\ \A j \in RowsOfFY(FyOfRow(i)) :
                result[j].Baseline = Rat(100000, Cardinality(RowsOfFY(FyOfRow(i))))
    /\ \E i, j \in Rows :
          /\ FyOfRow(i) = FyOfRow(j)
          /\ RowWeight(i)[1] > 0
          /\ result[i].Baseline # result[j].Baseline

(***************************************************************************)
(* Properties of the Factor Store (SpecFS)                                 *)
(***************************************************************************)
TableRows == 1 .. Len(nga_df)

\* the years of the loaded table
LoadedYears == {nga_df[i].NGA_Year : i \in TableRows}

\* the fuel names stored for a year
StoredNames(year) == {nga_df[i].Fuel_Name : i \in {j \in TableRows : nga_df[j].NGA_Year = year}}

\* the stored names of a year that start with the query
Candidates(year, query) == {name \in StoredNames(year) : startswith(name, query)}

\* the year nearest to the requested one, the lower one of two equally near
NearestYear(year) ==
    CHOOSE y \in LoadedYears :
        \A z \in LoadedYears :
            \/ Abs(y - year) < Abs(z - year)
            \/ (Abs(y - year) = Abs(z - year) /\ y <= z)

\* the year a lookup of the requested year uses
UsedYear == IF fs_args.year \in LoadedYears THEN fs_args.year ELSE NearestYear(fs_args.year)

\* the records of the used year under a name, for the requested scope and
\* with the state of the request (blank for a fuel lookup)
RecordsFor(name) ==
    {i \in TableRows :
        /\ nga_df[i].NGA_Year = UsedYear
        /\ nga_df[i].Fuel_Name = name
        /\ nga_df[i].Scope = fs_args.scope
        /\ nga_df[i].State = fs_args.state}

\* C15: in the resolved year a query that equals a stored name resolves to
\* that name even when longer stored names start with it; otherwise to the
\* shortest stored name that starts with the query; not found when no stored
\* name starts with it.  A fuel lookup (state unset) only matches records
\* whose state is blank, an electricity lookup only records of its state.
C15_NameResolution ==
    (pc = "fs_factor" /\ LoadedYears # {}) =>
        LET query == fs_args.nga_fuel_prefix
            cands == Candidates(UsedYear, query)
        IN  /\ cands = {} => fs_out.value = None
            /\ fs_out.value # None =>
                  /\ fs_out.value[1].Fuel_Name \in cands
                  /\ query \in cands => fs_out.value[1].Fuel_Name = query
                  /\ \A name \in cands : len(fs_out.value[1].Fuel_Name) <= len(name)
                  /\ \E i \in RecordsFor(fs_out.value[1].Fuel_Name) :
                        nga_df[i].EF_kgCO2e_per_unit = fs_out.value[1].EF_kgCO2e_per_unit
            /\ fs_out.value = None =>
                  \A name \in cands :
                      (\A other \in cands : len(name) <= len(other)) => RecordsFor(name) = {}

\* "Diesel oil" asked of a year that stores only the two longer diesel names,
\* the longer one first: it resolves to the shorter of the two
C15_Witness ==
    /\ pc = "fs_factor"
    /\ fs_args.nga_fuel_prefix = DieselOil
    /\ fs_args.state = ""
    /\ DieselOil \notin StoredNames(UsedYear)
    /\ Candidates(UsedYear, DieselOil) = {DieselOilCars, DieselOilHeavy}
    /\ fs_out.value # None
    /\ fs_out.value[1].Fuel_Name = DieselOilHeavy

\* C16: a requested year that is loaded resolves to itself; otherwise to the
\* loaded year with the smallest absolute difference, the lower year of two
\* equally distant ones; the result is a loaded year, and none only when no
\* year is loaded.
C16_YearResolution ==
    pc = "fs_year" =>
        /\ fs_args.year \in LoadedYears => fs_out.value = <<fs_args.year>>
        /\ LoadedYears = {} <=> fs_out.value = None
        /\ fs_out.value # None =>
              /\ fs_out.value[1] \in LoadedYears
              /\ \A z \in LoadedYears :
                    \/ Abs(fs_out.value[1] - fs_args.year) < Abs(z - fs_args.year)
                    \/ /\ Abs(fs_out.value[1] - fs_args.year) = Abs(z - fs_args.year)
                       /\ fs_out.value[1] <= z

\* 2024 asked of a table of 2023 and 2025: the lower year
C16_Witness ==
    /\ pc = "fs_year"
    /\ fs_args.year = 2024
    /\ LoadedYears = {2023, 2025}
    /\ fs_out.value = <<2023>>

\* the table holds a record of the requested year itself for the requested
\* fuel category, scope and state
CombinationInTable ==
    \E i \in TableRows :
        /\ nga_df[i].NGA_Year = fs_args.year
        /\ startswith(nga_df[i].Fuel_Name, fs_args.nga_fuel_prefix)
        /\ nga_df[i].Scope = fs_args.scope
        /\ nga_df[i].State = fs_args.state

\* C18: a lookup of a fuel category and year that the factor table does not
\* hold raises a configuration error and returns no factor.
C18_AbsentCombinationRaises ==
    (pc = "fs_factor" /\ ~CombinationInTable) =>
        /\ fs_out.raised
        /\ fs_out.value = None

(***************************************************************************)
(* Properties of build_year_factor_map and apply_emissions_to_df (SpecEM)  *)
(***************************************************************************)
\* the fiscal years of the ledger
LedgerYears == {agg_df[i].FY : i \in 1 .. Len(agg_df)}

\* the keys a year's factors carry
FactorKeySet == {FactorKeys[i] : i \in 1 .. Len(FactorKeys)}

\* the build has returned or raised
BuildEnded == pc \in {"em_built", "em_failed"}

\* the Factor Store has no Scope-1 factor of the category for the year, or
\* no Scope-2 factor of grid electricity in Queensland
FactorLacking(year, category) ==
    IF category = GridElectricity
    THEN get_electricity_factor(nga_df, year, "QLD", 2) = None
    ELSE match_fuel_factor(nga_df, year, category, 1, "") = None

\* the Factor Store has no Scope-3 factor of the category for the year
Scope3Lacking(year, category) ==
    IF category = GridElectricity
    THEN get_electricity_factor(nga_df, year, "QLD", 3) = None
    ELSE match_fuel_factor(nga_df, year, category, 3, "") = None

\* the <<year, category>> pairs of the ledger's years without the factor
\* the build requires
LackingPairs ==
    {yc \in LedgerYears \X FactorKeySet : FactorLacking(yc[1], yc[2])}

\* C17: the build raises exactly when a year of the ledger lacks the Scope-1
\* factor of a fuel category or the Scope-2 electricity factor of the state;
\* the error names a lacking category and year and no map is returned, not
\* even for the complete years; a lacking Scope-3 factor does not fail the
\* build and gives a Scope-3 factor of 0.
C17_BuildFailureSemantics ==
    BuildEnded =>
        /\ em_raised # None <=> LackingPairs # {}
        /\ em_raised # None =>
              /\ em_map = None
              /\ <<em_raised.year, em_raised.category>> \in LackingPairs
        /\ em_raised = None =>
              /\ em_map # None
              /\ DOMAIN em_map[1] = LedgerYears
              /\ \A year \in LedgerYears :
                    /\ DOMAIN em_map[1][year] = FactorKeySet
                    /\ \A category \in FactorKeySet :
                          Scope3Lacking(year, category) =>
                              em_map[1][year][category].s3 = RInt(0)

\* FY2024 is complete, FY2025 lacks the Scope-1 factor of LPG: the build
\* raises naming LPG and 2025 and returns nothing for FY2024 either
C17_Witness ==
    /\ pc = "em_failed"
    /\ Len(agg_df) = 2
    /\ agg_df[1].FY = 2024
    /\ agg_df[2].FY = 2025
    /\ \A category \in FactorKeySet : ~FactorLacking(2024, category)
    /\ em_raised.category = LPG
    /\ em_raised.year = 2025
    /\ em_map = None

\* the Scope-1 record of a fuel category carries no energy content for a
\* year of the ledger
EnergyContentMissing ==
    \E year \in LedgerYears, i \in 1 .. Len(FUEL_PREFIXES) :
        LET s1 == match_fuel_factor(nga_df, year, FUEL_PREFIXES[i], 1, "")
        IN  s1 # None /\ s1[1].Energy_Content = None

\* C19: when the Scope-1 record of a required fuel category has no energy
\* content, the build raises and returns no map.
C19_MissingEnergyContentRaises ==
    (BuildEnded /\ EnergyContentMissing) => (em_raised # None /\ em_map = None)

\* the key the tag of a row stands for: the tag itself, else the longest
\* key the tag starts with, else the first key that starts with the tag
KeyOfTag(tag) ==
    LET heads == {k \in FactorKeySet : startswith(tag, k)}
        tails == {i \in 1 .. Len(FactorKeys) : startswith(FactorKeys[i], tag)}
    IN  IF tag \in FactorKeySet THEN <<tag>>
        ELSE IF heads # {}
        THEN <<CHOOSE k \in heads : \A other \in heads : len(k) >= len(other)>>
        ELSE IF tails # {} THEN <<FactorKeys[Min(tails)]>>
        ELSE None

\* the row carries a fuel tag
Tagged(row) == row.NGAFuel # NaN /\ row.NGAFuel # <<>>

\* quantity times factor over 1000
Tonnes(quantity, factor) == RDiv(RMul(RInt(quantity), factor), RInt(1000))

\* the four columns of a row are the given values
ColumnsAre(row, scope1, scope2, scope3, energy) ==
    /\ row.Scope1_tCO2e = scope1
    /\ row.Scope2_tCO2e = scope2
    /\ row.Scope3_tCO2e = scope3
    /\ row.Energy_GJ = energy

\* C20: after the calculation every row whose tag stands for a key of the
\* factors of the row's own year has Scope N = Quantity * factor N / 1000
\* and Energy_GJ = Quantity * energy per unit; every row without a tag, and
\* every row whose tag stands for no key, has 0 in the four columns; the
\* values are a function of the row's own tag, year and quantity.
C20_PerRowEmissions ==
    pc = "em_done" =>
        \A i \in 1 .. Len(agg_df) :
            LET row == agg_df[i]
                key == KeyOfTag(row.NGAFuel)
            IN  IF Tagged(row) /\ key # None
                THEN LET yf == em_map[1][row.FY][key[1]]
                     IN  ColumnsAre(row, Tonnes(row.Quantity, yf.s1),
                                    Tonnes(row.Quantity, yf.s2),
                                    Tonnes(row.Quantity, yf.s3),
                                    RMul(RInt(row.Quantity), yf.energy))
                ELSE ColumnsAre(row, RInt(0), RInt(0), RInt(0), RInt(0))

\* diesel in FY2024 and in FY2025: each row with the factor of its own year
C20_Witness ==
    /\ pc = "em_done"
    /\ Len(agg_df) = 2
    /\ agg_df[1].NGAFuel = DieselOil
    /\ agg_df[2].NGAFuel = DieselOil
    /\ agg_df[1].FY = 2024
    /\ agg_df[2].FY = 2025
    /\ em_map[1][2024][DieselOil].s1 # em_map[1][2025][DieselOil].s1
    /\ agg_df[1].Scope1_tCO2e = Tonnes(1000, em_map[1][2024][DieselOil].s1)
    /\ agg_df[2].Scope1_tCO2e = Tonnes(2500, em_map[1][2025][DieselOil].s1)
    /\ RLt(RInt(0), agg_df[2].Energy_GJ)

\* the key the tag of a row is said to stand for: the tag itself, else the
\* longest key the tag starts with, else the longest of the keys that start
\* with the tag
PreferredKeyOfTag(tag) ==
    LET heads == {k \in FactorKeySet : startswith(tag, k)}
        tails == {k \in FactorKeySet : startswith(k, tag)}
    IN  IF tag \in FactorKeySet THEN <<tag>>
        ELSE IF heads # {}
        THEN <<CHOOSE k \in heads : \A other \in heads : len(k) >= len(other)>>
        ELSE IF tails # {}
        THEN <<CHOOSE k \in tails : \A other \in tails : len(k) >= len(other)>>
        ELSE None

\* the four columns of the row are those of the key's factors in the row's
\* own year
ColumnsOfKey(row, key) ==
    LET yf == em_map[1][row.FY][key]
    IN  ColumnsAre(row, Tonnes(row.Quantity, yf.s1), Tonnes(row.Quantity, yf.s2),
                   Tonnes(row.Quantity, yf.s3), RMul(RInt(row.Quantity), yf.energy))

\* C21: the calculation uses for a tagged row the factors of the tag itself
\* when it is a key, else of the longest key that is a prefix of the tag, else
\* of a key the tag is a prefix of, the longer key when there are several;
\* a tag that matches nothing is unmapped and the row keeps 0.
C21_KeyResolution ==
    pc = "em_done" =>
        \A i \in 1 .. Len(agg_df) :
            Tagged(agg_df[i]) =>
                IF PreferredKeyOfTag(agg_df[i].NGAFuel) = None
                THEN ColumnsAre(agg_df[i], RInt(0), RInt(0), RInt(0), RInt(0))
                ELSE ColumnsOfKey(agg_df[i], PreferredKeyOfTag(agg_df[i].NGAFuel)[1])

\* the tag of the row stands for no key
Unmapped(row) == Tagged(row) /\ KeyOfTag(row.NGAFuel) = None

\* the unit of the row is not the unit the factors of its key expect
UnitMismatch(row) ==
    /\ Tagged(row)
    /\ KeyOfTag(row.NGAFuel) # None
    /\ em_map[1][row.FY][KeyOfTag(row.NGAFuel)[1]].expected_uom # ""
    /\ row.UOM # em_map[1][row.FY][KeyOfTag(row.NGAFuel)[1]].expected_uom

\* the row is the subject of a data-quality warning
Affected(row) == Unmapped(row) \/ UnitMismatch(row)

\* the rows of the table that are not affected, in order
Unaffected == SelectSeq(agg_df, LAMBDA row : ~Affected(row))

\* the position in Unaffected of the unaffected row i of the table
PositionInUnaffected(i) == Cardinality({j \in 1 .. i : ~Affected(agg_df[j])})

\* C22: the calculation ends without an error; every row with a unit other
\* than the expected one or with an unmapped fuel has 0 in the four columns;
\* every other row has the values it has when the calculation is given the
\* table without the affected rows.
C22_WarningsZeroAffectedRows ==
    pc = "em_done" =>
        \A i \in 1 .. Len(agg_df) :
            IF Affected(agg_df[i])
            THEN ColumnsAre(agg_df[i], RInt(0), RInt(0), RInt(0), RInt(0))
            ELSE LET alone == row_columns(Unaffected, PositionInUnaffected(i), em_map[1])
                 IN  ColumnsAre(agg_df[i], alone.Scope1_tCO2e, alone.Scope2_tCO2e,
                                alone.Scope3_tCO2e, alone.Energy_GJ)

(***************************************************************************)
(* Properties of build_projection (SpecBP)                                 *)
(***************************************************************************)
\* the first call has built the combined table
CombinedBuilt == pc \in {"bp_built", "bp_rebuilt"} /\ bp_out.combined # None

\* a row as the CSV gave it, without the emissions calculated for it
CsvPart(row) ==
    [c \in DOMAIN row \ {"Scope1_tCO2e", "Scope2_tCO2e", "Scope3_tCO2e", "Energy_GJ"} |->
        row[c]]

\* the (Date, Description) keys of the rows of a data set in a table
KeysOf(t, dataset) == {merge_key(t[i]) : i \in {j \in 1 .. Len(t) : t[j].DataSet = dataset}}

\* C23: in the combined table every actual row of the input is kept as it
\* is, and a budget row is kept if and only if its (Date, Description) key
\* does not occur in the actuals; the combined table has these rows once
\* each and no others, so that no key has both an actual and a budget row
\* and every budget key absent from the actuals has its row
C23_ActualsWin ==
    CombinedBuilt =>
        LET input == bp_args.df
            combined == bp_out.combined[1]
            actual_keys == KeysOf(input, "Actual")
            kept(i) == \E j \in 1 .. Len(combined) : CsvPart(combined[j]) = CsvPart(input[i])
        IN  /\ \A i \in 1 .. Len(input) :
                  input[i].DataSet = "Actual" =>
                      \E j \in 1 .. Len(combined) : combined[j] = input[i]
            /\ \A i \in 1 .. Len(input) :
                  input[i].DataSet = "Budget" =>
                      (kept(i) <=> merge_key(input[i]) \notin actual_keys)
            /\ \A j \in 1 .. Len(combined) :
                  \E i \in 1 .. Len(input) : CsvPart(input[i]) = CsvPart(combined[j])
            /\ \A j, k \in 1 .. Len(combined) :
                  CsvPart(combined[j]) = CsvPart(combined[k]) => j = k
            /\ KeysOf(combined, "Actual") \cap KeysOf(combined, "Budget") = {}
            /\ KeysOf(input, "Budget") \ actual_keys \subseteq KeysOf(combined, "Budget")

\* a table with a budget row under the key of an actual row, a budget row
\* at the date of an actual row under a key of its own and a budget row of a
\* later month has been merged
C23_Witness ==
    /\ CombinedBuilt
    /\ KeysOf(bp_args.df, "Budget") \cap KeysOf(bp_args.df, "Actual") # {}
    /\ \E key \in KeysOf(bp_out.combined[1], "Budget") :
          \E other \in KeysOf(bp_args.df, "Actual") : key[1] = other[1]
    /\ \E key \in KeysOf(bp_out.combined[1], "Budget") :
          \A other \in KeysOf(bp_args.df, "Actual") : key[1] > other[1]

\* C24: the projection returned has exactly one record for every calendar
\* month from its first to its last month, and a month without ore, site
\* electricity or grid electricity rows has 0 in ROM_t, Site_Electricity_kWh
\* or Grid_Electricity_kWh
C24_OneRecordPerMonth ==
    CombinedBuilt =>
        LET combined == bp_out.combined[1]
            returned == bp_out.returned
            none(date, mask(_)) ==
                \A i \in 1 .. Len(combined) : combined[i].Date = date => ~mask(combined[i])
            rom(row) == row.CostCentre = DESC_ROM_COSTCENTRE /\ contains_ore(row.Description)
            site(row) == row.Description = GRID_SITE_ELEC_DESCRIPTION
            grid(row) == row.Description = GRID_GRID_ELEC_DESCRIPTION
        IN  /\ returned # <<>>
            /\ \A date \in returned[1].Date .. returned[Len(returned)].Date :
                  Cardinality({k \in 1 .. Len(returned) : returned[k].Date = date}) = 1
            /\ \A k \in 1 .. Len(returned) :
                  /\ none(returned[k].Date, rom) => returned[k].ROM_t = 0
                  /\ none(returned[k].Date, site) => returned[k].Site_Electricity_kWh = 0
                  /\ none(returned[k].Date, grid) => returned[k].Grid_Electricity_kWh = 0

CalRows == 1 .. Len(cal_args.df)

\* row i of the table is among the filtered rows
Kept(i) == \E j \in 1 .. Len(cal_out.filtered) : cal_out.filtered[j] = cal_args.df[i]

\* C26: the fiscal year of a date is its year + 1 from July on and its year
\* before; the range of a fiscal year is 1 July of the year before to 30 June,
\* and both ends map back to the fiscal year; filter_by_fy keeps exactly the
\* rows dated within the closed range, which are exactly the rows whose date
\* maps to the fiscal year, so that every date is in one fiscal year only.
C26_FiscalYearMapping ==
    pc = "cal_done" =>
        /\ \A i \in CalRows :
              cal_out.fy_of[i] = IF cal_args.df[i].Date[2] >= 7
                                 THEN cal_args.df[i].Date[1] + 1
                                 ELSE cal_args.df[i].Date[1]
        /\ cal_out.date_range = <<<<cal_args.fy - 1, 7, 1>>, <<cal_args.fy, 6, 30>>>>
        /\ cal_out.fy_of_range = <<cal_args.fy, cal_args.fy>>
        /\ \A i \in CalRows :
              /\ Kept(i) <=> /\ datetime_le(cal_out.date_range[1], cal_args.df[i].Date)
                             /\ datetime_le(cal_args.df[i].Date, cal_out.date_range[2])
              /\ Kept(i) <=> cal_out.fy_of[i] = cal_args.fy
        /\ \A j \in 1 .. Len(cal_out.filtered) :
              \E i \in CalRows : cal_out.filtered[j] = cal_args.df[i]

\* 30 June 2025 is kept for FY2025 and 1 July 2025 is not
C26_Witness ==
    /\ pc = "cal_done"
    /\ cal_args.fy = 2025
    /\ Len(cal_args.df) = 2
    /\ cal_args.df[1].Date = <<2025, 6, 30>>
    /\ cal_args.df[2].Date = <<2025, 7, 1>>
    /\ cal_out.fy_of = <<2025, 2026>>
    /\ Kept(1)
    /\ ~Kept(2)

(***************************************************************************)
(* Properties of the phases over the years and of Exit_FY (SpecSG)         *)
(***************************************************************************)
\* the phase the rows of fiscal year fy carry
PhaseOfFY(fy) == result[CHOOSE i \in Rows : FyOfRow(i) = fy].SMC_Phase

\* the fiscal years from fy on to the end of the table are all below the
\* threshold, given the annual Scope 1 of the years
BelowToTheEnd(annual, fy) == \A y \in DOMAIN annual : y >= fy => annual[y] < 100000

\* C27: Exit_FY is the first fiscal year of the run of below-threshold years
\* that ends the table, and empty when the last fiscal year is at or above
\* the threshold; the marked year and the years after it are below the
\* threshold and none of them is Safeguard.
C27_ExitYearMarker ==
    (Returned /\ Rows # {}) =>
        LET annual == Dict([fy \in OutFYs |-> AnnualScope1(fy)], OutFYs)
            tail == {fy \in OutFYs : BelowToTheEnd(annual, fy)}
        IN  /\ \A i \in Rows : result[i].Exit_FY = IF tail = {} THEN None ELSE <<Min(tail)>>
            /\ annual[Max(OutFYs)] >= 100000 => result[1].Exit_FY = None
            /\ result[1].Exit_FY # None =>
                  \A i \in Rows :
                      FyOfRow(i) >= result[1].Exit_FY[1] =>
                          /\ annual[FyOfRow(i)] < 100000
                          /\ result[i].SMC_Phase # "Safeguard"

\* a below-threshold year, a later year at the threshold, and an Exit_FY
\* later still
C27_Witness ==
    /\ Returned
    /\ Rows # {}
    /\ result[1].Exit_FY # None
    /\ \E y, z \in OutFYs :
          /\ y < z
          /\ z < result[1].Exit_FY[1]
          /\ AnnualScope1(y) < 100000
          /\ AnnualScope1(z) >= 100000

\* C28: the year after an Exited year is Exited when its annual Scope 1 is
\* below the threshold and Safeguard otherwise, never Opt-In or Gap; the
\* number of covered years in the lookback does not grow from a
\* below-threshold year to the next.
C28_ExitedUntilReentry ==
    Returned =>
        LET annual == Dict([fy \in OutFYs |-> AnnualScope1(fy)], OutFYs)
            phase == Dict([fy \in OutFYs |-> PhaseOfFY(fy)], OutFYs)
        IN  \A fy \in OutFYs :
                (fy + 1) \in OutFYs =>
                    /\ phase[fy] = "Exited" =>
                          /\ annual[fy + 1] < 100000 => phase[fy + 1] = "Exited"
                          /\ annual[fy + 1] >= 100000 => phase[fy + 1] = "Safeguard"
                    /\ annual[fy] < 100000 => LookbackCovered(fy + 1) <= LookbackCovered(fy)

\* two Exited years in a row, and an Exited year followed by a Safeguard year
C28_Witness ==
    /\ Returned
    /\ \E fy \in OutFYs :
          /\ (fy + 1) \in OutFYs
          /\ PhaseOfFY(fy) = "Exited"
          /\ PhaseOfFY(fy + 1) = "Exited"
    /\ \E fy \in OutFYs :
          /\ (fy + 1) \in OutFYs
          /\ PhaseOfFY(fy) = "Exited"
          /\ PhaseOfFY(fy + 1) = "Safeguard"

\* the fiscal years first .. last are in the table and all below the
\* threshold
BelowRun(annual, first, last) ==
    \A y \in first .. last : y \in DOMAIN annual /\ annual[y] < 100000

\* C29: a run of consecutive below-threshold years has at most
\* LOOKBACK - MIN_COVERED + 1 = 3 Opt-In years; no year before FY2029 is
\* Opt-In or Exited; after an Opt-In year of a run, a year of the run that is
\* not Opt-In and all later years of the run are Exited.
C29_BoundedOptIn ==
    Returned =>
        LET annual == Dict([fy \in OutFYs |-> AnnualScope1(fy)], OutFYs)
            phase == Dict([fy \in OutFYs |-> PhaseOfFY(fy)], OutFYs)
        IN  /\ \A fy \in OutFYs : fy < 2029 => phase[fy] \notin {"Opt-In", "Exited"}
            /\ \A first \in OutFYs, last \in OutFYs :
                  (first <= last /\ BelowRun(annual, first, last)) =>
                      /\ Cardinality({y \in first .. last : phase[y] = "Opt-In"}) <= 3
                      /\ \A y \in first .. last :
                            (phase[first] = "Opt-In" /\ first < y /\ phase[y] # "Opt-In") =>
                                \A z \in y .. last : phase[z] = "Exited"

\* three Opt-In years in a row followed by an Exited year
C29_Witness ==
    /\ Returned
    /\ \E fy \in OutFYs :
          /\ (fy + 3) \in OutFYs
          /\ PhaseOfFY(fy) = "Opt-In"
          /\ PhaseOfFY(fy + 1) = "Opt-In"
          /\ PhaseOfFY(fy + 2) = "Opt-In"
          /\ PhaseOfFY(fy + 3) = "Exited"

\* C30: every month of a Pre-Safeguard fiscal year has SMC_Monthly = 0, and
\* SMC_Cumulative is 0 up to the end of the last Pre-Safeguard year.
C30_PreSafeguardNoCredit ==
    Returned =>
        \A i \in Rows :
            result[i].SMC_Phase = "Pre-Safeguard" =>
                /\ result[i].SMC_Monthly = RInt(0)
                /\ (\A j \in 1 .. i : result[j].SMC_Phase = "Pre-Safeguard")
                      => result[i].SMC_Cumulative = RInt(0)

====
